---- MODULE Spec2Model ----
(***************************************************************************)
(* Mediaflix (src/mediaflix.py): file-name parsing, the download organizer *)
(* (sort_files / process_downloads_folder / move_file), the poster and     *)
(* synopsis caches (ImageItem.load_poster / load_metadata,                 *)
(* get_series_synopsis) and the cache-clearing thread (CacheClearThread).  *)
(*                                                                         *)
(* Text is modelled as a sequence of one-character strings, so that the    *)
(* regular expressions and slicing of the code are computed character by   *)
(* character.  An optional value (Python's None) is a record               *)
(* [some |-> BOOLEAN, v |-> value].                                        *)
(***************************************************************************)
EXTENDS Integers, Sequences, FiniteSets, TLC

VARIABLES
    \* ---- file organizer (sort_files) ----
    fs,          \* the files on disk: set of [dir, name, kind, id]
    dirs,        \* the destination directories that exist
    srcExists,   \* which download folders exist: [1..2 -> BOOLEAN]
    sortPc,      \* position of sort_files: "idle", "folder", "files", "moving", "done", "failed"
    folderIdx,   \* index of the download folder being processed
    listing,     \* entries of os.listdir(downloads_folder) not yet visited
    cur,         \* the move_file call in progress
    moveLog,     \* history: one record per attempt of the latest move_file call
    listed,      \* history: the entries os.listdir returned in this run
    processed,   \* history: the media entries the loop handed to move_file in this run
    failures,    \* number of failures the environment produced so far (bounded by MaxFailures)
    \* ---- poster / synopsis caches and their clearing thread ----
    posterDir,   \* POSTER_CACHE_DIR: file name -> content
    synDir,      \* SYNOPSIS_CACHE_DIR: file name -> content
    clearPc,     \* position of CacheClearThread.run
    clearIdx,    \* index of the cache directory being cleared
    queue,       \* executor work queue: files submitted, not yet taken
    inflight,    \* files held by a worker thread
    attempts,    \* history: deletion attempts per file of this run
    errLog,      \* history: files whose deletion failure was logged
    emitted,     \* history: number of finished signals of this run
    guiEnabled,  \* MediaOrganizerApp.setEnabled
    timers,      \* the series folders whose QTimer.singleShot callback is pending
    current_season, \* MediaOrganizerApp.current_season
    \* ---- lookups ----
    lastCall,    \* history: what the last lookup did
    persisted    \* history: keys persisted since the last cache clear

vars == <<fs, dirs, srcExists, sortPc, folderIdx, listing, cur, moveLog, listed, processed, failures,
          posterDir, synDir, clearPc, clearIdx, queue, inflight, attempts, errLog,
          emitted, guiEnabled, timers, current_season, lastCall, persisted>>

organizerVars == <<fs, dirs, srcExists, sortPc, folderIdx, listing, cur, moveLog, listed, processed, failures>>
clearVars == <<clearPc, clearIdx, queue, inflight, attempts, errLog, emitted, guiEnabled>>
cacheVars == <<posterDir, synDir>>
lookupVars == <<lastCall, persisted>>
otherThanOrganizer == <<clearVars, cacheVars, lookupVars, timers, current_season>>
otherThanCaches == <<organizerVars, timers, current_season>>

(***************************************************************************)
(* Text helpers                                                            *)
(***************************************************************************)
None == [some |-> FALSE, v |-> <<>>]
Some(x) == [some |-> TRUE, v |-> x]

Digits == {"0", "1", "2", "3", "4", "5", "6", "7", "8", "9"}
DigitSeq == <<"0", "1", "2", "3", "4", "5", "6", "7", "8", "9">>
UpperSeq == <<"A", "B", "C", "D", "E", "F", "G", "H", "I", "J", "K", "L", "M",
              "N", "O", "P", "Q", "R", "S", "T", "U", "V", "W", "X", "Y", "Z">>
LowerSeq == <<"a", "b", "c", "d", "e", "f", "g", "h", "i", "j", "k", "l", "m",
              "n", "o", "p", "q", "r", "s", "t", "u", "v", "w", "x", "y", "z">>
Uppers == {UpperSeq[i] : i \in 1..26}
Lowers == {LowerSeq[i] : i \in 1..26}

IsDigit(c) == c \in Digits
IsAlnum(c) == c \in Digits \cup Uppers \cup Lowers
\* \w of Python's re: letters, digits and the underscore
IsWordChar(c) == IsAlnum(c) \/ c = "_"
IsSpace(c) == c = " "

SetMin(S) == CHOOSE x \in S : \A y \in S : x <= y
SetMax(S) == CHOOSE x \in S : \A y \in S : x >= y

DigitVal(c) == CHOOSE d \in 0..9 : DigitSeq[d + 1] = c

\* str.lower() of one character and of a text
LowerChar(c) == IF c \in Uppers THEN LowerSeq[CHOOSE i \in 1..26 : UpperSeq[i] = c] ELSE c
Lower(s) == [i \in 1..Len(s) |-> LowerChar(s[i])]

\* str.strip()
Strip(s) ==
    LET keep == {i \in 1..Len(s) : ~IsSpace(s[i])}
    IN IF keep = {} THEN <<>> ELSE SubSeq(s, SetMin(keep), SetMax(keep))

\* s[:n] and s[n:] of Python, n counted from 0
Prefix(s, n) == SubSeq(s, 1, n)
Suffix(s, n) == SubSeq(s, n + 1, Len(s))

StartsWith(s, p) == Len(p) <= Len(s) /\ SubSeq(s, 1, Len(p)) = p
EndsWith(s, p) == Len(p) <= Len(s) /\ SubSeq(s, Len(s) - Len(p) + 1, Len(s)) = p
\* p in s
Contains(s, p) == \E i \in 1..(Len(s) - Len(p) + 1) : SubSeq(s, i, i + Len(p) - 1) = p

\* int(text) for a run of decimal digits
RECURSIVE ParseInt(_)
ParseInt(s) == IF s = <<>> THEN 0 ELSE 10 * ParseInt(Prefix(s, Len(s) - 1)) + DigitVal(s[Len(s)])

\* str(n) for n >= 0
RECURSIVE IntToStr(_)
IntToStr(n) == IF n < 10 THEN <<DigitSeq[n + 1]>> ELSE IntToStr(n \div 10) \o <<DigitSeq[(n % 10) + 1]>>

\* name.replace('_', ' ').replace('.', ' ') and re.sub(r'[._]', ' ', name)
replace_underscores_and_dots(s) == [i \in 1..Len(s) |-> IF s[i] \in {".", "_"} THEN " " ELSE s[i]]

\* the characters of s at the positions of keep, in order
RECURSIVE Filter(_, _, _)
Filter(s, keep, i) ==
    IF i > Len(s) THEN <<>>
    ELSE (IF i \in keep THEN <<s[i]>> ELSE <<>>) \o Filter(s, keep, i + 1)

(***************************************************************************)
(* extract_year                                                            *)
(***************************************************************************)
\* (19[0-9]{2}|20[0-2][0-9]) matches at position i
YearAt(s, i) ==
    /\ i >= 1
    /\ i + 3 <= Len(s)
    /\ \/ s[i] = "1" /\ s[i + 1] = "9" /\ IsDigit(s[i + 2]) /\ IsDigit(s[i + 3])
       \/ s[i] = "2" /\ s[i + 1] = "0" /\ s[i + 2] \in {"0", "1", "2"} /\ IsDigit(s[i + 3])

\* the positions of the year group for each of the three patterns
BareYearAt(s, i) ==
    /\ YearAt(s, i)
    /\ (i = 1 \/ ~IsDigit(s[i - 1]))
    /\ (i + 3 = Len(s) \/ ~IsDigit(s[i + 4]))
BracketYearAt(s, i) == YearAt(s, i) /\ i > 1 /\ s[i - 1] = "[" /\ i + 4 <= Len(s) /\ s[i + 4] = "]"
ParenYearAt(s, i) == YearAt(s, i) /\ i > 1 /\ s[i - 1] = "(" /\ i + 4 <= Len(s) /\ s[i + 4] = ")"

\* a variant that takes four digits of a longer run of digits as a year
extract_year_InsideRun(name) ==
    LET m == {i \in 1..Len(name) : YearAt(name, i)}
    IN IF m # {} THEN Some(SubSeq(name, SetMin(m), SetMin(m) + 3)) ELSE None

extract_year(name) ==
    LET m1 == {i \in 1..Len(name) : BareYearAt(name, i)}
        m2 == {i \in 1..Len(name) : BracketYearAt(name, i)}
        m3 == {i \in 1..Len(name) : ParenYearAt(name, i)}
    IN IF m1 # {} THEN Some(SubSeq(name, SetMin(m1), SetMin(m1) + 3))
       ELSE IF m2 # {} THEN Some(SubSeq(name, SetMin(m2), SetMin(m2) + 3))
       ELSE IF m3 # {} THEN Some(SubSeq(name, SetMin(m3), SetMin(m3) + 3))
       ELSE None

(***************************************************************************)
(* ImageItem.extract_movie_title                                           *)
(***************************************************************************)
\* (19|20)\d{2} matches at position i
LooseYearAt(s, i) ==
    /\ i + 3 <= Len(s)
    /\ (s[i] = "1" /\ s[i + 1] = "9") \/ (s[i] = "2" /\ s[i + 1] = "0")
    /\ IsDigit(s[i + 2]) /\ IsDigit(s[i + 3])

extract_movie_title(name) ==
    LET clean == replace_underscores_and_dots(name)
        m == {i \in 1..Len(clean) : LooseYearAt(clean, i)}
    IN IF m # {} THEN Strip(Prefix(clean, SetMin(m) - 1)) ELSE Strip(clean)

(***************************************************************************)
(* extract_series_info                                                     *)
(***************************************************************************)
\* the last position of the longest run of digits that starts at i (i - 1 if none)
RECURSIVE DigitRunEnd(_, _)
DigitRunEnd(s, i) == IF i <= Len(s) /\ IsDigit(s[i]) THEN DigitRunEnd(s, i + 1) ELSE i - 1

\* [Ss](\d+)[Ee](\d+) matches at position i
SeasonEpisodeAt(s, i) ==
    /\ s[i] \in {"S", "s"}
    /\ LET e1 == DigitRunEnd(s, i + 1)
       IN /\ e1 >= i + 1
          /\ e1 + 2 <= Len(s)
          /\ s[e1 + 1] \in {"E", "e"}
          /\ IsDigit(s[e1 + 2])

\* the length of the match of \b(1080|720|480)p\b at position i, case-insensitive (0 if none)
QualityTagLen(s, i) ==
    LET before == i = 1 \/ ~IsWordChar(s[i - 1])
        after(j) == j = Len(s) \/ ~IsWordChar(s[j + 1])
        is(n, tag) == i + n - 1 <= Len(s) /\ Lower(SubSeq(s, i, i + n - 1)) = tag
    IN IF before /\ is(5, <<"1", "0", "8", "0", "p">>) /\ after(i + 4) THEN 5
       ELSE IF before /\ (is(4, <<"7", "2", "0", "p">>) \/ is(4, <<"4", "8", "0", "p">>)) /\ after(i + 3) THEN 4
       ELSE 0

\* re.sub(r'\b(1080|720|480)p\b', '', s, flags=re.IGNORECASE)
RemoveQualityTags(s) ==
    LET gone == {k \in 1..Len(s) : \E i \in 1..k : k < i + QualityTagLen(s, i)}
    IN Filter(s, (1..Len(s)) \ gone, 1)

\* re.sub(r'\[.*?\]', '', s)
RECURSIVE RemoveBrackets(_)
RemoveBrackets(s) ==
    LET opens == {i \in 1..Len(s) : s[i] = "[" /\ \E j \in (i + 1)..Len(s) : s[j] = "]"}
    IN IF opens = {} THEN s
       ELSE LET i == SetMin(opens)
                j == SetMin({k \in (i + 1)..Len(s) : s[k] = "]"})
            IN Prefix(s, i - 1) \o RemoveBrackets(Suffix(s, j))

\* re.sub(r'[^a-zA-Z0-9\s]', '', s)
RemoveSpecials(s) == Filter(s, {i \in 1..Len(s) : IsAlnum(s[i]) \/ IsSpace(s[i])}, 1)

SeasonWord == <<"S", "e", "a", "s", "o", "n", " ">>

\* a variant whose season label keeps the digits as the file name has them
extract_series_info_Padded(filename) ==
    LET m == {i \in 1..Len(filename) : SeasonEpisodeAt(filename, i)}
    IN IF m = {} THEN [series |-> None, season |-> None, year |-> None]
       ELSE LET start == SetMin(m)
                base_name == Prefix(filename, start - 1)
            IN [series |-> Some(Strip(RemoveSpecials(Strip(replace_underscores_and_dots(base_name))))),
                season |-> Some(SeasonWord \o SubSeq(filename, start + 1, DigitRunEnd(filename, start + 1))),
                year |-> extract_year(base_name)]

\* (series_name, f"Season {season_num}", year), each optional
extract_series_info(filename) ==
    LET m == {i \in 1..Len(filename) : SeasonEpisodeAt(filename, i)}
    IN IF m = {} THEN [series |-> None, season |-> None, year |-> None]
       ELSE LET start == SetMin(m)
                season_num == ParseInt(SubSeq(filename, start + 1, DigitRunEnd(filename, start + 1)))
                base_name == Prefix(filename, start - 1)
                year == extract_year(base_name)
                n1 == Strip(replace_underscores_and_dots(base_name))
                n2 == Strip(RemoveQualityTags(n1))
                n3 == Strip(RemoveBrackets(n2))
                n4 == IF year.some /\ EndsWith(n3, year.v)
                      THEN Strip(Prefix(n3, Len(n3) - Len(year.v)))
                      ELSE n3
                n5 == Strip(RemoveSpecials(n4))
            IN [series |-> Some(n5), season |-> Some(SeasonWord \o IntToStr(season_num)), year |-> year]

(***************************************************************************)
(* File names                                                              *)
(***************************************************************************)
\* media_extensions
media_extensions == {<<".", "m", "p", "4">>, <<".", "m", "k", "v">>, <<".", "a", "v", "i">>, <<".", "m", "o", "v">>}

\* a variant that takes every name with a dot in it for a media file
IsMedia_AnyExtension(file_name) == \E i \in 1..Len(file_name) : file_name[i] = "."

\* any(file_name.lower().endswith(ext) for ext in media_extensions)
IsMedia(file_name) == \E ext \in media_extensions : EndsWith(Lower(file_name), ext)

\* os.path.splitext: the extension starts at the last dot, leading dots aside
splitext(file_name) ==
    LET dots == {i \in 1..Len(file_name) : file_name[i] = "." /\ \E j \in 1..(i - 1) : file_name[j] # "."}
    IN IF dots = {} THEN [base |-> file_name, ext |-> <<>>]
       ELSE [base |-> Prefix(file_name, SetMax(dots) - 1), ext |-> Suffix(file_name, SetMax(dots) - 1)]

(***************************************************************************)
(* The file organizer: sort_files, process_downloads_folder, move_file     *)
(***************************************************************************)
\* bounds of the model
MaxFiles == 3
MaxFailures == 3

\* retries = 3 of move_file
Retries == 3

\* a directory is [root, sub]: sub is the path below the root
Dir(root, sub) == [root |-> root, sub |-> sub]
\* the second download folder lies inside the first one
N_subdir == <<"T", "e", "l", "e", "g", "r", "a", "m", " ", "D", "e", "s", "k", "t", "o", "p">>
downloads_folders == <<Dir("Downloads", <<>>), Dir("Downloads", <<N_subdir>>)>>
movies_folder == Dir("Movies", <<>>)
series_folder == Dir("Series", <<>>)
\* os.path.join(series_folder, series_name, season)
SeriesSeasonDir(series_name, season) == Dir("Series", <<series_name, season>>)

\* the file names the model draws from
N_ShowS02E03 == <<"S", "h", "o", "w", ".", "S", "0", "2", "E", "0", "3", ".", "m", "k", "v">>
N_Movie2020 == <<"M", "o", "v", "i", "e", ".", "2", "0", "2", "0", ".", "m", "k", "v">>
N_movie == <<"m", "o", "v", "i", "e", ".", "m", "p", "4">>
N_movie_1 == <<"m", "o", "v", "i", "e", "_", "1", ".", "m", "p", "4">>
N_movie_2 == <<"m", "o", "v", "i", "e", "_", "2", ".", "m", "p", "4">>
N_S01E01 == <<"S", "0", "1", "E", "0", "1", ".", "m", "k", "v">>
N_notes == <<"n", "o", "t", "e", "s", ".", "t", "x", "t">>
N_Archive == <<"A", "r", "c", "h", "i", "v", "e">>

Entry(dir, name, kind, id) == [dir |-> dir, name |-> name, kind |-> kind, id |-> id]

\* what may lie in the download folders and in the movies folder at the start
SourceNames == <<N_movie, N_ShowS02E03, N_S01E01, N_notes>>
InitialEntries ==
    {Entry(downloads_folders[1], SourceNames[n], "file", 10 + n) : n \in 1..Len(SourceNames)}
    \cup {Entry(downloads_folders[2], SourceNames[1], "file", 21)}
    \cup {Entry(downloads_folders[1], N_subdir, "dir", 19)}
    \cup {Entry(downloads_folders[1], N_Archive, "dir", 17),
          Entry(Dir("Downloads", <<N_Archive>>), N_movie, "file", 18)}
    \cup {Entry(movies_folder, N_movie, "file", 31)}

NoEntry == Entry(movies_folder, <<>>, "none", 0)
NoMove == [active |-> FALSE, src |-> NoEntry, dest |-> movies_folder, attempt |-> 0]

\* the names os.path.exists finds in a directory
Occupied(dest_folder) == {e.name : e \in {x \in fs : x.dir = dest_folder}}

\* the while loop of get_unique_filename
RECURSIVE UniqueLoop(_, _, _, _, _)
UniqueLoop(dest_folder, base_name, extension, unique_name, counter) ==
    IF unique_name \in Occupied(dest_folder)
    THEN UniqueLoop(dest_folder, base_name, extension,
                    base_name \o <<"_">> \o IntToStr(counter) \o extension, counter + 1)
    ELSE unique_name

\* a variant that appends the counter after the extension
get_unique_filename_NoSplit(dest_folder, file_name) ==
    UniqueLoop(dest_folder, file_name, <<>>, file_name, 1)

get_unique_filename(dest_folder, file_name) ==
    UniqueLoop(dest_folder, splitext(file_name).base, splitext(file_name).ext, file_name, 1)

\* a variant that leaves out the season level of the series path
DestinationOf_NoSeason(file_name) ==
    LET info == extract_series_info(replace_underscores_and_dots(file_name))
    IN IF info.series.some /\ info.series.v # <<>> /\ info.season.some
       THEN Dir("Series", <<info.series.v>>)
       ELSE movies_folder

\* a variant that tests the series name against None only
DestinationOf_EmptySeries(file_name) ==
    LET info == extract_series_info(replace_underscores_and_dots(file_name))
    IN IF info.series.some /\ info.season.some
       THEN SeriesSeasonDir(info.series.v, info.season.v)
       ELSE movies_folder

\* the destination process_downloads_folder chooses for a media file
DestinationOf(file_name) ==
    LET info == extract_series_info(replace_underscores_and_dots(file_name))
    IN IF info.series.some /\ info.series.v # <<>> /\ info.season.some
       THEN SeriesSeasonDir(info.series.v, info.season.v)
       ELSE movies_folder

OrganizerInit ==
    /\ fs \in {S \in SUBSET InitialEntries : Cardinality({e \in S : e.kind = "file"}) <= MaxFiles}
    /\ srcExists \in [1..2 -> BOOLEAN]
    /\ \A e \in fs : \A d \in 1..2 : e.dir = downloads_folders[d] => srcExists[d]
    /\ srcExists[2] <=> Entry(downloads_folders[1], N_subdir, "dir", 19) \in fs
    /\ Entry(downloads_folders[1], N_Archive, "dir", 17) \in fs
          <=> Entry(Dir("Downloads", <<N_Archive>>), N_movie, "file", 18) \in fs
    /\ dirs = {e.dir : e \in {x \in fs : x.dir = movies_folder}}
    /\ sortPc = "idle"
    /\ folderIdx = 1
    /\ listing = {}
    /\ cur = NoMove
    /\ moveLog = <<>>
    /\ listed = {}
    /\ processed = {}
    /\ failures = 0

\* sort_files is entered: the loop over downloads_folders starts
SortFiles ==
    /\ sortPc \in {"idle", "done", "failed"}
    /\ sortPc' = "folder"
    /\ folderIdx' = 1
    /\ listing' = {}
    /\ cur' = NoMove
    /\ moveLog' = <<>>
    /\ listed' = {}
    /\ processed' = {}
    /\ UNCHANGED <<fs, dirs, srcExists, failures>>
    /\ UNCHANGED otherThanOrganizer

\* os.path.exists(downloads_folder), then os.listdir of process_downloads_folder
EnterFolder ==
    /\ sortPc = "folder"
    /\ folderIdx <= Len(downloads_folders)
    /\ IF srcExists[folderIdx]
       THEN /\ listing' = {e \in fs : e.dir = downloads_folders[folderIdx]}
            /\ listed' = listed \cup listing'
            /\ sortPc' = "files"
            /\ UNCHANGED folderIdx
       ELSE \* logging.error("Downloads folder not found")
            /\ folderIdx' = folderIdx + 1
            /\ UNCHANGED <<listing, listed, sortPc>>
    /\ UNCHANGED <<fs, dirs, srcExists, cur, moveLog, processed, failures>>
    /\ UNCHANGED otherThanOrganizer

\* os.listdir raises: the exception leaves the loop of sort_files
ListFails ==
    /\ sortPc = "folder"
    /\ folderIdx <= Len(downloads_folders)
    /\ srcExists[folderIdx]
    /\ failures < MaxFailures
    /\ failures' = failures + 1
    /\ sortPc' = "failed"
    /\ UNCHANGED <<fs, dirs, srcExists, folderIdx, listing, cur, moveLog, listed, processed>>
    /\ UNCHANGED otherThanOrganizer

\* one iteration of the loop of process_downloads_folder, up to the call of move_file
VisitEntry ==
    /\ sortPc = "files"
    /\ \E e \in listing :
        /\ listing' = listing \ {e}
        /\ IF e.kind # "dir" /\ IsMedia(e.name)
           THEN /\ cur' = [active |-> TRUE, src |-> e, dest |-> DestinationOf(e.name), attempt |-> 0]
                /\ processed' = processed \cup {e}
                /\ moveLog' = <<>>
                /\ sortPc' = "moving"
           ELSE UNCHANGED <<cur, processed, moveLog, sortPc>>
    /\ UNCHANGED <<fs, dirs, srcExists, folderIdx, listed, failures>>
    /\ UNCHANGED otherThanOrganizer

\* the listing is exhausted: process_downloads_folder returns
LeaveFolder ==
    /\ sortPc = "files"
    /\ listing = {}
    /\ folderIdx' = folderIdx + 1
    /\ sortPc' = "folder"
    /\ UNCHANGED <<fs, dirs, srcExists, listing, cur, moveLog, listed, processed, failures>>
    /\ UNCHANGED otherThanOrganizer

\* the loop over downloads_folders is over: update_media_lists (the lookups of
\* the rebuilt items are the actions LoadPoster and LoadMetadata), success message
FinishSort ==
    /\ sortPc = "folder"
    /\ folderIdx > Len(downloads_folders)
    /\ sortPc' = "done"
    /\ UNCHANGED <<fs, dirs, srcExists, folderIdx, listing, cur, moveLog, listed, processed, failures>>
    /\ UNCHANGED otherThanOrganizer

\* a variant that retries after every kind of failure
RetryAfter_AnyFailure(outcome, attemptNo) == outcome # "ok" /\ attemptNo < Retries

\* whether the for loop of move_file makes another attempt after this outcome
RetryAfter(outcome, attemptNo) == outcome = "permission" /\ attemptNo < Retries

\* a variant in which a failed move leaves sort_files
AfterMove_Abort(outcome) == IF outcome = "ok" THEN "files" ELSE "failed"

\* where process_downloads_folder goes on once move_file has returned:
\* move_file catches every exception, so the loop over the listing continues
AfterMove(outcome) == "files"

\* one pass of the for loop of move_file: ensure_directory_exists,
\* get_unique_filename, shutil.move, and the except clauses.  shutil.move
\* renames the file; when the rename is refused it copies the file to the
\* destination and then removes the source, so a PermissionError can be raised
\* by the removal, after the copy was made (copied).
MoveAttempt ==
    /\ sortPc = "moving"
    /\ cur.active
    /\ \E outcome \in {"ok", "permission", "notfound", "other"}, copied \in BOOLEAN :
        LET attemptNo == cur.attempt + 1
            unique_name == get_unique_filename(cur.dest, cur.src.name)
            entry == [src |-> cur.src, attempt |-> attemptNo, outcome |-> outcome,
                      destDir |-> cur.dest,
                      destName |-> IF outcome = "ok" \/ copied THEN unique_name ELSE <<>>,
                      occupied |-> Occupied(cur.dest)]
        IN /\ copied => outcome = "permission"
           /\ moveLog' = Append(moveLog, entry)
           /\ IF outcome = "ok"
              THEN /\ fs' = (fs \ {cur.src}) \cup {Entry(cur.dest, unique_name, "file", cur.src.id)}
                   /\ dirs' = dirs \cup {cur.dest}
                   /\ UNCHANGED failures
              ELSE /\ failures < MaxFailures
                   /\ failures' = failures + 1
                   \* the failure is raised by os.makedirs or by shutil.move
                   /\ \E made \in {m \in BOOLEAN : copied => m} :
                          dirs' = IF made THEN dirs \cup {cur.dest} ELSE dirs
                   /\ fs' = IF copied
                            THEN fs \cup {Entry(cur.dest, unique_name, "file", cur.src.id)}
                            ELSE fs
           /\ IF RetryAfter(outcome, attemptNo)
              THEN cur' = [cur EXCEPT !.attempt = attemptNo] /\ UNCHANGED sortPc
              ELSE cur' = NoMove /\ sortPc' = AfterMove(outcome)
    /\ UNCHANGED <<srcExists, folderIdx, listing, listed, processed>>
    /\ UNCHANGED otherThanOrganizer

OrganizerNext ==
    \/ SortFiles
    \/ EnterFolder
    \/ ListFails
    \/ VisitEntry
    \/ LeaveFolder
    \/ FinishSort
    \/ MoveAttempt

NoCall == [op |-> "none"]

\* the components the organizer does not touch, at rest
CachesAtRest ==
    /\ timers = {}
    /\ current_season = [some |-> FALSE, v |-> <<>>]
    /\ posterDir = <<>>
    /\ synDir = <<>>
    /\ clearPc = "idle"
    /\ clearIdx = 1
    /\ queue = {}
    /\ inflight = {}
    /\ attempts = <<>>
    /\ errLog = {}
    /\ emitted = 0
    /\ guiEnabled = TRUE
    /\ lastCall = NoCall
    /\ persisted = {}

InitOrganizer == OrganizerInit /\ CachesAtRest

SpecOrganizer == InitOrganizer /\ [][OrganizerNext]_vars

(***************************************************************************)
(* Properties of the file organizer                                        *)
(***************************************************************************)
LastMove == moveLog[Len(moveLog)]
MoveEnded == ~cur.active /\ moveLog # <<>>
InDownloads(e) == \E d \in 1..Len(downloads_folders) : e.dir = downloads_folders[d]
IsMediaFile(e) == e.kind # "dir" /\ IsMedia(e.name)

\* the k-th name of the sequence filename, base_1.ext, base_2.ext, ...
CandidateName(file_name, k) ==
    IF k = 0 THEN file_name
    ELSE splitext(file_name).base \o <<"_">> \o IntToStr(k) \o splitext(file_name).ext

\* the first name of that sequence that is not in occupied
FirstFreeName(file_name, occupied) ==
    LET k == SetMin({j \in 0..Cardinality(occupied) : CandidateName(file_name, j) \notin occupied})
    IN CandidateName(file_name, k)

\* C4: a successful move stores the file under the first name of the sequence
\* filename, base_1.ext, base_2.ext, ... that nothing in dest_dir occupied;
\* movie.mp4 beside movie.mp4 becomes movie_1.mp4, and beside both movie_2.mp4.
C4_FirstFreeName ==
    \A i \in 1..Len(moveLog) :
        LET r == moveLog[i]
        IN r.outcome = "ok" =>
            /\ r.destName = FirstFreeName(r.src.name, r.occupied)
            /\ r.destName \notin r.occupied
            /\ Entry(r.destDir, r.destName, "file", r.src.id) \in fs
            /\ r.src \notin fs
            /\ (r.src.name = N_movie /\ r.occupied = {N_movie}) => r.destName = N_movie_1
            /\ (r.src.name = N_movie /\ r.occupied = {N_movie, N_movie_1}) => r.destName = N_movie_2

C4_Witness ==
    /\ Entry(movies_folder, N_movie, "file", 31) \in fs
    /\ \E a, b \in {11, 21} :
        /\ a # b
        /\ Entry(movies_folder, N_movie_1, "file", a) \in fs
        /\ Entry(movies_folder, N_movie_2, "file", b) \in fs
    /\ moveLog # <<>>
    /\ LastMove.outcome = "ok"
    /\ LastMove.destName = N_movie_2

\* the directory the claim C7 names for a media file
LayoutDir(file_name) ==
    LET info == extract_series_info(replace_underscores_and_dots(file_name))
    IN IF info.series.some /\ Len(info.series.v) > 0
       THEN Dir("Series", <<info.series.v, info.season.v>>)
       ELSE Dir("Movies", <<>>)

\* that directory for each name a download folder may hold
LayoutDirs == [file_name \in {e.name : e \in InitialEntries} |-> LayoutDir(file_name)]

\* C7 as stated: every media file that was moved lies at
\* series_dest/<series_name>/<season_label>/<original_filename>, or at
\* movies_dest/<original_filename> when no season/episode information resolves.
C7_Original ==
    \A i \in 1..Len(moveLog) :
        LET r == moveLog[i]
        IN r.outcome = "ok" => Entry(LayoutDirs[r.src.name], r.src.name, "file", r.src.id) \in fs

\* C7 amended: every media file whose move succeeds lies in
\* series_dest/<series_name>/<season_label> (when a non-empty series name and a
\* season resolve) or else in movies_dest, under its original file name when
\* nothing there had that name and otherwise under the first free name
\* base_1.ext, base_2.ext, ...; a file whose move failed stays where it was.
C7_Layout ==
    /\ \A i \in 1..Len(moveLog) :
        LET r == moveLog[i]
        IN /\ r.destDir = LayoutDirs[r.src.name]
           /\ r.src.name = N_ShowS02E03 => r.destDir = Dir("Series", <<<<"S", "h", "o", "w">>, <<"S", "e", "a", "s", "o", "n", " ", "2">>>>)
           /\ r.src.name \in {N_Movie2020, N_movie, N_S01E01} => r.destDir = Dir("Movies", <<>>)
           /\ r.outcome = "ok" =>
                /\ \E n \in {IF r.src.name \notin r.occupied THEN r.src.name
                             ELSE FirstFreeName(r.src.name, r.occupied)} :
                      Entry(r.destDir, n, "file", r.src.id) \in fs
                /\ r.src.name \notin r.occupied => r.destName = r.src.name
                /\ r.src \notin fs
    /\ (MoveEnded /\ LastMove.outcome # "ok") => LastMove.src \in fs

C7_Witness ==
    /\ sortPc = "done"
    /\ Entry(Dir("Series", <<<<"S", "h", "o", "w">>, <<"S", "e", "a", "s", "o", "n", " ", "2">>>>), N_ShowS02E03, "file", 12) \in fs
    /\ Entry(Dir("Movies", <<>>), N_movie, "file", 11) \in fs
    /\ \A e \in fs : ~InDownloads(e)

\* C8: a move is attempted at most 3 times; an attempt after the first follows a
\* permission failure; success, a not-found failure and any other failure end
\* the move with that attempt.
C8_RetryPolicy ==
    /\ Len(moveLog) <= 3
    /\ \A i \in 1..Len(moveLog) :
        /\ moveLog[i].attempt = i
        /\ i > 1 => moveLog[i - 1].outcome = "permission"
        /\ i > 1 => moveLog[i].src = moveLog[i - 1].src
    /\ (cur.active /\ moveLog # <<>>) => (LastMove.outcome = "permission" /\ Len(moveLog) < 3)
    /\ MoveEnded => (LastMove.outcome \in {"ok", "notfound", "other"} \/ Len(moveLog) = 3)
    /\ (moveLog # <<>> /\ LastMove.outcome \in {"ok", "notfound", "other"}) => ~cur.active
    /\ cur.active => sortPc = "moving"

C8_Witness ==
    /\ MoveEnded
    /\ Len(moveLog) = 3
    /\ \A i \in 1..3 : moveLog[i].outcome = "permission"

\* C9: when sort_files has ended, every media file that a listing of a source
\* directory returned was handed to move_file, whatever failed for other files,
\* and when it ended normally no media file of an existing source directory
\* was left out.
C9_BatchIsolation ==
    /\ sortPc \in {"done", "failed"} => \A e \in listed : IsMediaFile(e) => e \in processed
    /\ sortPc = "done" =>
        \A e \in fs : (InDownloads(e) /\ IsMediaFile(e)) => e \in processed

\* a file's move failed, and a file visited after it was still moved
C9_Witness ==
    /\ sortPc = "done"
    /\ moveLog # <<>>
    /\ LastMove.outcome = "ok"
    /\ \E e \in processed : e \in fs /\ e # LastMove.src

\* the extension of a name is one of the media extensions, whatever its case
HasMediaExtension(file_name) == Lower(splitext(file_name).ext) \in media_extensions
\* the entry lies in a directory below a source directory
BelowSource(e) ==
    \E d \in 1..Len(downloads_folders) :
        /\ e.dir.root = downloads_folders[d].root
        /\ Len(e.dir.sub) > Len(downloads_folders[d].sub)
        /\ SubSeq(e.dir.sub, 1, Len(downloads_folders[d].sub)) = downloads_folders[d].sub

\* C23 as stated: no entry that a step of the organizer takes from where it
\* was (moves, renames or deletes) is a subdirectory of a source directory, an
\* entry inside such a subdirectory, or a file whose extension is not a media
\* extension.
C23_FrameAsStated ==
    [][\A e \in fs \ fs' :
          ~(e.kind = "dir" \/ BelowSource(e) \/ ~HasMediaExtension(e.name))]_vars

\* C23: no entry that a step of the organizer takes from where it was (moves,
\* renames or deletes) is a directory entry, a file whose extension is not a
\* media extension, or an entry inside a subdirectory of a source directory
\* that is not itself a source directory.
C23_Frame ==
    [][\A e \in fs \ fs' :
          ~(e.kind = "dir" \/ (BelowSource(e) /\ ~InDownloads(e)) \/ ~HasMediaExtension(e.name))]_vars

C23_Witness ==
    /\ sortPc = "done"
    /\ \E e \in fs : e.id = 11 /\ ~InDownloads(e) /\ ~BelowSource(e)
    /\ Entry(downloads_folders[1], N_notes, "file", 14) \in fs
    /\ Entry(downloads_folders[1], N_Archive, "dir", 17) \in fs
    /\ Entry(Dir("Downloads", <<N_Archive>>), N_movie, "file", 18) \in fs

(***************************************************************************)
(* Cache keys: cache_name, quote, cache_file                               *)
(***************************************************************************)
\* urllib.parse.quote of one character: letters, digits and _.-~/ are kept
QuoteChar(c) ==
    IF IsAlnum(c) \/ c \in {"_", ".", "-", "~", "/"} THEN <<c>>
    ELSE IF c = " " THEN <<"%", "2", "0">>
    ELSE IF c = "%" THEN <<"%", "2", "5">>
    ELSE IF c = "[" THEN <<"%", "5", "B">>
    ELSE IF c = "]" THEN <<"%", "5", "D">>
    ELSE IF c = "(" THEN <<"%", "2", "8">>
    ELSE IF c = ")" THEN <<"%", "2", "9">>
    ELSE IF c = "!" THEN <<"%", "2", "1">>
    ELSE IF c = "&" THEN <<"%", "2", "6">>
    ELSE IF c = "'" THEN <<"%", "2", "7">>
    ELSE IF c = "+" THEN <<"%", "2", "B">>
    ELSE IF c = "," THEN <<"%", "2", "C">>
    ELSE IF c = ":" THEN <<"%", "3", "A">>
    ELSE \* "?"; no other character occurs in the names used here
         <<"%", "3", "F">>

RECURSIVE quote(_)
quote(s) == IF s = <<>> THEN <<>> ELSE QuoteChar(s[1]) \o quote(Tail(s))

\* a variant that leaves the year out of the name
CacheName_NoYear(title, year) == title

\* cache_name = f"{title}", then += f" {year}" if year
CacheName(title, year) == IF year.some /\ year.v # <<>> THEN title \o <<" ">> \o year.v ELSE title

\* the key that addresses the poster and the metadata of (title, year)
CacheKey(title, year) == quote(CacheName(title, year))

ExtJpg == <<".", "j", "p", "g">>
ExtTxt == <<".", "t", "x", "t">>
ExtMeta == <<"_", "m", "e", "t", "a", ".", "t", "x", "t">>
PosterFile(title, year) == CacheKey(title, year) \o ExtJpg
SynopsisFile(title, year) == CacheKey(title, year) \o ExtTxt
\* cache_file.replace('.txt', '_meta.txt')
MetaFile(title, year) == CacheKey(title, year) \o ExtMeta

\* the titles and years the model draws from
T_Alien == <<"A", "l", "i", "e", "n">>
T_Aliens == <<"A", "l", "i", "e", "n", "s">>
T_Up == <<"U", "p">>
T_UpAllNight == <<"U", "p", " ", "A", "l", "l", " ", "N", "i", "g", "h", "t">>
Y_1979 == <<"1", "9", "7", "9">>
Y_1986 == <<"1", "9", "8", "6">>
Y_2009 == <<"2", "0", "0", "9">>

\* a function as a set of files: the file names of a cache directory
FilesOf(dir) == DOMAIN dir
\* the directory with file name n written (created or overwritten) with content c
WriteFile(dir, n, c) == [x \in (DOMAIN dir) \cup {n} |-> IF x = n THEN c ELSE dir[x]]
\* the directory without the file n
RemoveFile(dir, n) == [x \in (DOMAIN dir) \ {n} |-> dir[x]]

(***************************************************************************)
(* CacheClearThread.run, started by refresh_all                            *)
(***************************************************************************)
\* bound of the model: files per cache directory at the start
MaxCacheFiles == 2

\* ThreadPoolExecutor(max_workers=8)
max_workers == 8

\* the cache directories in the order run visits them
CachePath(d, n) == [dir |-> d, name |-> n]
CacheDirFiles(d) == IF d = 1 THEN FilesOf(posterDir) ELSE FilesOf(synDir)
AllCacheFiles == {CachePath(1, n) : n \in FilesOf(posterDir)} \cup {CachePath(2, n) : n \in FilesOf(synDir)}

\* refresh_all: setEnabled(False), the thread is created and started
RefreshAll ==
    /\ guiEnabled
    /\ clearPc = "idle"
    /\ sortPc \in {"idle", "done", "failed"}
    /\ guiEnabled' = FALSE
    /\ clearPc' = "dir"
    /\ clearIdx' = 1
    /\ queue' = {}
    /\ inflight' = {}
    /\ attempts' = <<>>
    /\ errLog' = {}
    /\ emitted' = 0
    /\ persisted' = {}
    /\ lastCall' = NoCall
    /\ UNCHANGED cacheVars
    /\ UNCHANGED otherThanCaches

\* files = [... for f in os.listdir(cache_dir) if os.path.isfile(...)];
\* executor.map(delete_file, files) submits one task per file
ListCacheDir ==
    /\ clearPc = "dir"
    /\ clearIdx <= 2
    /\ LET files == {CachePath(clearIdx, n) : n \in CacheDirFiles(clearIdx)}
       IN /\ queue' = files
          /\ attempts' = [f \in (DOMAIN attempts) \cup files |-> IF f \in DOMAIN attempts THEN attempts[f] ELSE 0]
    /\ clearPc' = "pool"
    /\ UNCHANGED <<clearIdx, inflight, errLog, emitted, guiEnabled>>
    /\ UNCHANGED <<cacheVars, lookupVars>>
    /\ UNCHANGED otherThanCaches

\* a worker thread of the pool takes the next task
WorkerTake ==
    /\ clearPc = "pool"
    /\ Cardinality(inflight) < max_workers
    /\ \E f \in queue :
        /\ queue' = queue \ {f}
        /\ inflight' = inflight \cup {f}
    /\ UNCHANGED <<clearPc, clearIdx, attempts, errLog, emitted, guiEnabled>>
    /\ UNCHANGED <<cacheVars, lookupVars>>
    /\ UNCHANGED otherThanCaches

\* a variant in which a failed deletion drops the tasks not yet started
QueueAfterDelete_Abort(outcome, q) == IF outcome = "ok" THEN q ELSE {}

\* the tasks left after delete_file returned: the except clause of delete_file
\* keeps a failure inside the task
QueueAfterDelete(outcome, q) == q

\* delete_file(file_path): os.remove, or the error is logged
WorkerDelete ==
    /\ clearPc = "pool"
    /\ \E f \in inflight : \E outcome \in {"ok", "error"} :
        /\ inflight' = inflight \ {f}
        /\ attempts' = [attempts EXCEPT ![f] = @ + 1]
        /\ queue' = QueueAfterDelete(outcome, queue)
        /\ IF outcome = "ok" /\ f.name \in CacheDirFiles(f.dir)
           THEN /\ posterDir' = IF f.dir = 1 THEN RemoveFile(posterDir, f.name) ELSE posterDir
                /\ synDir' = IF f.dir = 2 THEN RemoveFile(synDir, f.name) ELSE synDir
                /\ UNCHANGED errLog
           ELSE /\ errLog' = errLog \cup {f}
                /\ UNCHANGED cacheVars
    /\ UNCHANGED <<clearPc, clearIdx, emitted, guiEnabled>>
    /\ UNCHANGED lookupVars
    /\ UNCHANGED otherThanCaches

\* a variant that leaves the with block once every task was handed to a worker
PoolFinished_NoWait == queue = {}

\* the with block of the executor ends: shutdown(wait=True) has returned
PoolFinished == queue = {} /\ inflight = {}

\* the loop over the cache directories goes on
LeaveCacheDir ==
    /\ clearPc = "pool"
    /\ PoolFinished
    /\ clearIdx' = clearIdx + 1
    /\ clearPc' = "dir"
    /\ UNCHANGED <<queue, inflight, attempts, errLog, emitted, guiEnabled>>
    /\ UNCHANGED <<cacheVars, lookupVars>>
    /\ UNCHANGED otherThanCaches

\* self.finished.emit()
EmitFinished ==
    /\ clearPc = "dir"
    /\ clearIdx > 2
    /\ emitted' = emitted + 1
    /\ clearPc' = "emitted"
    /\ UNCHANGED <<clearIdx, queue, inflight, attempts, errLog, guiEnabled>>
    /\ UNCHANGED <<cacheVars, lookupVars>>
    /\ UNCHANGED otherThanCaches

\* for series_name in sorted(os.listdir(series_folder)): if os.path.isdir(...)
SeriesFolders == {d.sub[1] : d \in {x \in dirs : x.root = series_folder.root /\ Len(x.sub) > 0}}

\* populate_series_list queues one QTimer.singleShot(0, load_series_metadata)
\* for each series folder
TimersAfterPopulate == timers \cup SeriesFolders

\* _on_refresh_done, the slot of the finished signal, is entered:
\* update_media_lists and populate_series_list rebuild the items, whose
\* lookups are the actions LoadPoster and LoadMetadata; the record of the
\* finished run is gone
OnRefreshDone ==
    /\ clearPc = "emitted"
    /\ clearPc' = "reload"
    /\ clearIdx' = 1
    /\ attempts' = <<>>
    /\ errLog' = {}
    /\ emitted' = 0
    /\ timers' = TimersAfterPopulate
    /\ UNCHANGED <<queue, inflight, guiEnabled, current_season>>
    /\ UNCHANGED <<cacheVars, lookupVars>>
    /\ UNCHANGED organizerVars

\* _on_refresh_done returns: the lists are rebuilt, setEnabled(True)
RefreshDoneReturn ==
    /\ clearPc = "reload"
    /\ clearPc' = "idle"
    /\ guiEnabled' = TRUE
    /\ UNCHANGED <<clearIdx, queue, inflight, attempts, errLog, emitted>>
    /\ UNCHANGED <<cacheVars, lookupVars>>
    /\ UNCHANGED otherThanCaches

ClearThreadNext ==
    \/ ListCacheDir
    \/ WorkerTake
    \/ WorkerDelete
    \/ LeaveCacheDir
    \/ EmitFinished

ClearNext ==
    \/ RefreshAll
    \/ ListCacheDir
    \/ WorkerTake
    \/ WorkerDelete
    \/ LeaveCacheDir
    \/ EmitFinished
    \/ OnRefreshDone
    \/ RefreshDoneReturn

\* the organizer at rest
OrganizerAtRest ==
    /\ fs = {}
    /\ dirs = {}
    /\ srcExists = [d \in 1..2 |-> TRUE]
    /\ sortPc = "idle"
    /\ folderIdx = 1
    /\ listing = {}
    /\ cur = NoMove
    /\ moveLog = <<>>
    /\ listed = {}
    /\ processed = {}
    /\ failures = 0

ClearAtRest ==
    /\ timers = {}
    /\ current_season = [some |-> FALSE, v |-> <<>>]
    /\ clearPc = "idle"
    /\ clearIdx = 1
    /\ queue = {}
    /\ inflight = {}
    /\ attempts = <<>>
    /\ errLog = {}
    /\ emitted = 0
    /\ guiEnabled = TRUE

CacheTitles == {T_Alien, T_Aliens}
CacheYears == {None, Some(Y_1979)}
PosterFileNames == {PosterFile(ti, y) : ti \in CacheTitles, y \in CacheYears}
SynopsisFileNames == {SynopsisFile(T_Alien, Some(Y_1979)), MetaFile(T_Alien, Some(Y_1979)), SynopsisFile(T_Aliens, None)}

\* the caches hold some files when the application starts
InitClear ==
    /\ OrganizerAtRest
    /\ ClearAtRest
    /\ posterDir \in {[n \in S |-> "image"] : S \in {X \in SUBSET PosterFileNames : Cardinality(X) <= MaxCacheFiles}}
    /\ synDir \in {[n \in S |-> "text"] : S \in {X \in SUBSET SynopsisFileNames : Cardinality(X) <= MaxCacheFiles}}
    /\ lastCall = NoCall
    /\ persisted = {}

SpecClear == InitClear /\ [][ClearNext]_vars

\* the threads of the process are scheduled: the clearing thread and its
\* workers keep running, and the GUI thread handles the queued signal
FairSpecClear == InitClear /\ [][ClearNext]_vars /\ WF_vars(ClearThreadNext) /\ WF_vars(OnRefreshDone) /\ WF_vars(RefreshDoneReturn)

(***************************************************************************)
(* Properties of the cache-clearing thread                                 *)
(***************************************************************************)
\* what a finished run leaves: every listed file was tried once, the files
\* whose deletion failed are logged and still there, all others are gone
ClearOutcome ==
    /\ queue = {}
    /\ inflight = {}
    /\ \A f \in DOMAIN attempts : attempts[f] = 1
    /\ AllCacheFiles = errLog
    /\ errLog \subseteq DOMAIN attempts

\* C5: a run of clear_all ends, and when it ends every file of the cache
\* directories has had exactly one deletion attempt, the failed deletions are
\* logged, and every file but those is removed.
C5_BestEffort == (clearPc = "dir" /\ clearIdx = 1) ~> (clearPc = "emitted" /\ ClearOutcome)

\* N = 4 files, one of them undeletable
C5_Witness ==
    /\ clearPc = "emitted"
    /\ Cardinality(DOMAIN attempts) = 4
    /\ Cardinality(errLog) = 1
    /\ AllCacheFiles = errLog

\* C6: the finished signal is emitted once per run, and not before every file
\* of both cache directories has had its deletion attempt.
C6_SignalAfterAll ==
    /\ emitted <= 1
    /\ clearPc \in {"dir", "pool"} => emitted = 0
    /\ clearPc = "emitted" => emitted = 1
    /\ emitted = 1 =>
        /\ clearIdx > 2
        /\ queue = {}
        /\ inflight = {}
        /\ \A f \in DOMAIN attempts : attempts[f] = 1
        /\ AllCacheFiles \subseteq {f \in DOMAIN attempts : f \in errLog}

C6_Witness ==
    /\ clearPc = "emitted"
    /\ emitted = 1
    /\ \E f, g \in DOMAIN attempts : f.dir = 1 /\ g.dir = 2
    /\ Cardinality(DOMAIN attempts) = 4
    /\ errLog # {}

(***************************************************************************)
(* ImageItem.load_poster                                                   *)
(***************************************************************************)
\* bound of the model: candidates in one search response
MaxResults == 2

\* the display names (file names without extension) the model draws from
D_Alien == <<"A", "l", "i", "e", "n">>
D_Alien1979 == <<"A", "l", "i", "e", "n", ".", "1", "9", "7", "9">>
D_Alien1986 == <<"A", "l", "i", "e", "n", ".", "1", "9", "8", "6">>
D_Aliens1979 == <<"A", "l", "i", "e", "n", "s", ".", "1", "9", "7", "9">>
DisplayNames == {D_Alien, D_Alien1979, D_Alien1986, D_Aliens1979}

\* a file content is "A" or "B" (two images) or "junk" (bytes that are no
\* image); "absent" stands for no file and for no poster
Images == {"A", "B"}

\* a variant that takes no bytes for an image
PixmapIsNull_Always(content) == TRUE

\* QPixmap(path).isNull() / pixmap.loadFromData failed
PixmapIsNull(content) == content \notin Images

ContentAt(dir, file) == IF file \in DOMAIN dir THEN dir[file] ELSE "absent"

\* all orders in which os.listdir may return the files of S
Orders(S) == {o \in [1..Cardinality(S) -> S] : \A i, j \in 1..Cardinality(S) : o[i] = o[j] => i = j}

Abs(n) == IF n < 0 THEN -n ELSE n

\* the loop "Try similar cached posters": closest_path after the loop, <<>> for None.
\* diff is closest_year_diff, with -1 for float('inf')
RECURSIVE ScanLoop(_, _, _, _, _, _)
ScanLoop(order, i, title, year, diff, path) ==
    IF i > Len(order) THEN path
    ELSE LET fname == order[i]
             m == {j \in 1..Len(fname) : LooseYearAt(fname, j)}
         IN IF StartsWith(Lower(fname), Lower(quote(title)))
            THEN IF m # {} /\ year.some
                 THEN LET d == Abs(ParseInt(SubSeq(fname, SetMin(m), SetMin(m) + 3)) - ParseInt(year.v))
                      IN IF diff = -1 \/ d < diff
                         THEN ScanLoop(order, i + 1, title, year, d, fname)
                         ELSE ScanLoop(order, i + 1, title, year, diff, path)
                 ELSE IF ~year.some
                 THEN fname
                 ELSE ScanLoop(order, i + 1, title, year, diff, path)
            ELSE ScanLoop(order, i + 1, title, year, diff, path)

SimilarScan(order, title, year) == ScanLoop(order, 1, title, year, -1, <<>>)

\* a variant that never returns from the scan of similar posters
SimilarHit_Never(content) == FALSE

\* "if closest_path: pixmap = QPixmap(closest_path); if not pixmap.isNull(): ... return"
SimilarHit(content) == ~PixmapIsNull(content)

\* a candidate of a search response, as load_poster reads it:
\* year is release_date[:4] or first_air_date[:4], poster is poster_path or backdrop_path
PosterCandidates == [year : {Y_1979, Y_1986}, poster : {"none", "A", "B"}]
RECURSIVE SeqsUpTo(_, _)
SeqsUpTo(S, n) == IF n = 0 THEN {<<>>} ELSE SeqsUpTo(S, n - 1) \cup {Append(s, x) : s \in {q \in SeqsUpTo(S, n - 1) : Len(q) = n - 1}, x \in S}

\* the first loop over the results: the candidates of the searched year
RECURSIVE YearLoop(_, _, _, _)
YearLoop(results, i, year, poster_path) ==
    IF i > Len(results) THEN poster_path
    ELSE IF year.some /\ results[i].year = year.v
         THEN IF results[i].poster # "none" THEN results[i].poster
              ELSE YearLoop(results, i + 1, year, results[i].poster)
         ELSE YearLoop(results, i + 1, year, poster_path)

\* the second loop: the first candidate that has a poster
RECURSIVE AnyLoop(_, _)
AnyLoop(results, i) ==
    IF i > Len(results) THEN "none"
    ELSE IF results[i].poster # "none" THEN results[i].poster ELSE AnyLoop(results, i + 1)

\* poster_path after both loops
PickPoster(results, year) ==
    IF YearLoop(results, 1, year, "none") # "none" THEN YearLoop(results, 1, year, "none")
    ELSE AnyLoop(results, 1)

\* the responses of the search, and for each search_year of the items the
\* values poster_path can have after the two loops
PosterResponses == SeqsUpTo(PosterCandidates, MaxResults)
SearchYears == {extract_year(name) : name \in DisplayNames}
PickedPosters == [year \in SearchYears |-> {PickPoster(results, year) : results \in PosterResponses}]

\* requests.get(image_url, timeout=10).content: the body of the response.
\* "ok" is the image asked for; "junk" is a body that is no image; "status" is
\* a response with an error status, whose body is an error page (the status
\* is never looked at); "error" is a request that raises
ImageBody(fetch, poster_path) == IF fetch = "ok" THEN poster_path ELSE "junk"

\* what follows the loops for each search_year: no image request when
\* poster_path is None ("none"), else the outcome of the image request and
\* the bytes it gives
PosterFetches ==
    [year \in SearchYears |->
        {[fetch |-> IF poster_path = "none" THEN "none" ELSE fetch,
          image_data |-> IF poster_path = "none" \/ fetch = "error" THEN "absent" ELSE ImageBody(fetch, poster_path)] :
            poster_path \in PickedPosters[year], fetch \in {"ok", "junk", "status", "error"}}]

\* the record of one call of load_poster.  search and fetch are the outcomes
\* of the two requests and write the outcome of writing the cache file
\* ("none": not reached); logged tells whether the except clause ran
PosterCall(name, title, year, stages, source, result, remoteCalls, wrote, exact, path, similar, known, search, fetch, write, logged) ==
    [op |-> "poster", name |-> name, title |-> title, year |-> year,
     stages |-> stages, source |-> source, result |-> result,
     remoteCalls |-> remoteCalls, wrote |-> wrote,
     exact |-> exact, path |-> path, similar |-> similar, persistedBefore |-> known,
     search |-> search, fetch |-> fetch, write |-> write, logged |-> logged]

\* ImageItem.__init__ for each display name: search_title and search_year
PosterItems == [name \in DisplayNames |-> [search_title |-> extract_movie_title(name), search_year |-> extract_year(name)]]

\* load_poster of an ImageItem whose display name is name.  The GUI thread
\* builds the items in update_media_lists, at the start, after sorting and at
\* the end of _on_refresh_done; nothing else runs while it does, and the call
\* is taken with the GUI thread back at rest.  The locals of the method are
\* bound once each (title, year, cache_file, exact, known)
LoadPoster ==
    /\ clearPc = "idle"
    /\ \E name \in DisplayNames :
       \E title \in {PosterItems[name].search_title} :
       \E year \in {PosterItems[name].search_year} :
       \E cache_file \in {PosterFile(title, year)} :
       \E exact \in {ContentAt(posterDir, cache_file)} :
       \E known \in {(<<title, year>> \in persisted)} :
          IF ~PixmapIsNull(exact)
          THEN \* Try cache first
               /\ lastCall' = PosterCall(name, title, year, <<"exact">>, "exact", exact, 0, "none", exact, <<>>, "absent", known, "none", "none", "none", FALSE)
               /\ UNCHANGED <<posterDir, persisted>>
          ELSE \* os.listdir returns the files in some order
               \E closest_path \in {SimilarScan(order, title, year) : order \in Orders(FilesOf(posterDir))} :
               \E similar \in {IF closest_path = <<>> THEN "absent" ELSE ContentAt(posterDir, closest_path)} :
                  IF closest_path # <<>> /\ SimilarHit(similar)
                  THEN \* Try similar cached posters
                       /\ lastCall' = PosterCall(name, title, year, <<"exact", "similar">>, "similar", similar, 0, "none", exact, closest_path, similar, known, "none", "none", "none", FALSE)
                       /\ UNCHANGED <<posterDir, persisted>>
                  ELSE \* Fetch from TMDB
                       \E search \in {"ok", "error"} :
                       IF search = "error"
                       THEN \* the request, raise_for_status or json() raises
                            /\ lastCall' = PosterCall(name, title, year, <<"exact", "similar", "remote">>, "none", "absent", 1, "none", exact, closest_path, similar, known, search, "none", "none", TRUE)
                            /\ UNCHANGED <<posterDir, persisted>>
                       ELSE \* the response holds some results: poster_path is None after
                            \* the loops, or the image is requested
                            \E got \in PosterFetches[year] :
                               IF got.fetch = "none"
                               THEN /\ lastCall' = PosterCall(name, title, year, <<"exact", "similar", "remote">>, "none", "absent", 1, "none", exact, closest_path, similar, known, search, "none", "none", FALSE)
                                    /\ UNCHANGED <<posterDir, persisted>>
                               ELSE IF got.fetch = "error"
                               THEN \* the image request raises
                                    /\ lastCall' = PosterCall(name, title, year, <<"exact", "similar", "remote">>, "none", "absent", 2, "none", exact, closest_path, similar, known, search, got.fetch, "none", TRUE)
                                    /\ UNCHANGED <<posterDir, persisted>>
                               ELSE \* the model keeps at most MaxCacheFiles posters in the cache
                                    /\ cache_file \in FilesOf(posterDir) \/ Cardinality(FilesOf(posterDir)) < MaxCacheFiles
                                    /\ \E write \in {"ok", "error", "partial"} :
                                       \E image_data \in {got.image_data} :
                                       \E shown \in {IF PixmapIsNull(image_data) THEN "absent" ELSE image_data} :
                                          IF write # "ok"
                                          THEN \* open or write raises: a failing write may leave a truncated file
                                               \E left \in {write = "partial"} :
                                               /\ lastCall' = PosterCall(name, title, year, <<"exact", "similar", "remote">>, "none", "absent", 2,
                                                                         IF left THEN "partial" ELSE "none", exact, closest_path, similar, known, search, got.fetch, write, TRUE)
                                               /\ posterDir' = IF left THEN WriteFile(posterDir, cache_file, "junk") ELSE posterDir
                                               /\ UNCHANGED persisted
                                          ELSE /\ posterDir' = WriteFile(posterDir, cache_file, image_data)
                                               /\ persisted' = persisted \cup {<<title, year>>}
                                               /\ lastCall' = PosterCall(name, title, year, <<"exact", "similar", "remote">>,
                                                                         IF shown = "absent" THEN "none" ELSE "remote",
                                                                         shown, 2, image_data, exact, closest_path, similar, known, search, got.fetch, write, FALSE)
    /\ UNCHANGED synDir
    /\ UNCHANGED clearVars
    /\ UNCHANGED otherThanCaches

PosterNext ==
    \/ LoadPoster
    \/ RefreshAll
    \/ ListCacheDir
    \/ WorkerTake
    \/ WorkerDelete
    \/ LeaveCacheDir
    \/ EmitFinished
    \/ OnRefreshDone
    \/ RefreshDoneReturn

\* the poster cache is empty when the application is first started
InitPoster ==
    /\ OrganizerAtRest
    /\ ClearAtRest
    /\ posterDir = <<>>
    /\ synDir = <<>>
    /\ lastCall = NoCall
    /\ persisted = {}

SpecPoster == InitPoster /\ [][PosterNext]_vars

(***************************************************************************)
(* Properties of load_poster                                               *)
(***************************************************************************)
\* C1: a call of load_poster for a (title, year) that an earlier call has
\* persisted, with no clearing of the cache in between, issues no remote
\* request and shows the bytes of the cache file.
C1_Idempotence ==
    (lastCall.op = "poster" /\ lastCall.persistedBefore) =>
        /\ lastCall.remoteCalls = 0
        /\ lastCall.source = "exact"
        /\ lastCall.result = lastCall.exact

\* C10: load_poster tries the exact cache file, then the cache files whose
\* name begins with the quoted title, then the remote search, in that order;
\* a stage runs only when the stages before it gave no poster, a remote
\* request is issued only in the third stage, and a call in which no stage
\* gave a poster shows none.
C10_ResolutionOrder ==
    lastCall.op = "poster" =>
        /\ lastCall.stages \in {<<"exact">>, <<"exact", "similar">>, <<"exact", "similar", "remote">>}
        /\ Len(lastCall.stages) >= 2 => PixmapIsNull(lastCall.exact)
        /\ Len(lastCall.stages) = 3 => PixmapIsNull(lastCall.similar)
        /\ lastCall.remoteCalls > 0 <=> Len(lastCall.stages) = 3
        /\ lastCall.path # <<>> => StartsWith(Lower(lastCall.path), Lower(quote(lastCall.title)))
        /\ lastCall.source = "exact" <=> ~PixmapIsNull(lastCall.exact)
        /\ lastCall.source = "exact" => lastCall.result = lastCall.exact
        /\ lastCall.source = "similar" <=> (PixmapIsNull(lastCall.exact) /\ ~PixmapIsNull(lastCall.similar))
        /\ lastCall.source = "similar" => lastCall.result = lastCall.similar
        /\ lastCall.source = "remote" => Len(lastCall.stages) = 3 /\ lastCall.result \in Images
        /\ lastCall.source = "none" <=> lastCall.result = "absent"
        /\ lastCall.source = "none" => Len(lastCall.stages) = 3

\* a call that went through all three stages: the exact file and the similar
\* file were there but held no image, and the remote search gave the poster
C10_Witness ==
    /\ lastCall.op = "poster"
    /\ lastCall.stages = <<"exact", "similar", "remote">>
    /\ lastCall.exact = "junk"
    /\ lastCall.path # <<>>
    /\ lastCall.similar = "junk"
    /\ lastCall.source = "remote"
    /\ lastCall.result \in Images

(***************************************************************************)
(* The cache keys of the items                                             *)
(***************************************************************************)
D_Alien_1979 == <<"A", "l", "i", "e", "n", " ", "1", "9", "7", "9">>
D_Alien19791 == <<"A", "l", "i", "e", "n", ".", "1", "9", "7", "9", "1">>
D_Alien2035 == <<"A", "l", "i", "e", "n", "_", "2", "0", "3", "5">>
D_Alien1979b == <<"A", "l", "i", "e", "n", " ", "(", "1", "9", "7", "9", ")", " ", "1", "9", "7", "9">>

\* display names of movie files and names of series folders
KeyNames == {D_Alien, D_Alien1979, D_Alien1986, D_Aliens1979, D_Alien_1979, D_Alien19791, D_Alien2035, D_Alien1979b}

\* search_title and search_year of a movie item (ImageItem.__init__);
\* series_name and year of a series (load_series_metadata, get_series_synopsis)
ItemPair(kind, name) ==
    IF kind = "movie"
    THEN [title |-> extract_movie_title(name), year |-> extract_year(name)]
    ELSE [title |-> name, year |-> extract_year(name)]

KeyCall(built, a, b) ==
    [op |-> "key", built |-> built, a |-> a, b |-> b,
     keyA |-> CacheKey(a.title, a.year), keyB |-> CacheKey(b.title, b.year)]

\* two items of the lists build their cache names
ItemKeys ==
    /\ \E kindA, kindB \in {"movie", "series"} : \E nameA, nameB \in KeyNames :
       \E a \in {ItemPair(kindA, nameA)} : \E b \in {ItemPair(kindB, nameB)} :
          lastCall' = KeyCall(TRUE, a, b)
    /\ UNCHANGED <<persisted, cacheVars, clearVars>>
    /\ UNCHANGED otherThanCaches

\* any titles and years a caller of the key function may pass
KeyPairs == [title : {T_Alien, T_Aliens, D_Alien_1979}, year : {None, Some(Y_1979), Some(Y_1986)}]

\* the cache name is built for two pairs that are given as they are
PairKeys ==
    /\ \E a, b \in KeyPairs : lastCall' = KeyCall(FALSE, a, b)
    /\ UNCHANGED <<persisted, cacheVars, clearVars>>
    /\ UNCHANGED otherThanCaches

KeyNext ==
    \/ ItemKeys
    \/ PairKeys

InitKey ==
    /\ OrganizerAtRest
    /\ ClearAtRest
    /\ posterDir = <<>>
    /\ synDir = <<>>
    /\ lastCall = NoCall
    /\ persisted = {}

SpecKey == InitKey /\ [][KeyNext]_vars

D_Up2009 == <<"U", "p", ".", "2", "0", "0", "9">>
MetaNames == {D_Up2009}

\* a result of a search response, as load_metadata reads it: year is
\* release_date[:4] or first_air_date[:4]; the overview "" is an empty one
\* and each title has its own overview text
OverviewOf(name) == IF name = T_Up THEN "A" ELSE "B"
MetaCandidates ==
    {[name |-> T_Up, year |-> Y_2009, overview |-> OverviewOf(T_Up)],
     [name |-> T_Up, year |-> Y_1979, overview |-> OverviewOf(T_Up)],
     [name |-> T_Up, year |-> Y_1979, overview |-> ""],
     [name |-> T_UpAllNight, year |-> Y_2009, overview |-> OverviewOf(T_UpAllNight)],
     [name |-> T_UpAllNight, year |-> Y_2009, overview |-> ""]}

\* vote_average and genre_ids of a result: each title has its own; 999 is an
\* id that genre_map does not hold
RatingOf(name) == IF name = T_Up THEN 8 ELSE 6
GenreIdsOf(name) == IF name = T_Up THEN <<16>> ELSE <<35, 999>>

\* genre_map.get(int(gid), "")
genre_map(gid) == IF gid = 16 THEN "Animation" ELSE IF gid = 35 THEN "Comedy" ELSE ""

\* genres_named: the names of the ids, the unknown ones dropped
RECURSIVE genres_named(_)
genres_named(ids) ==
    IF ids = <<>> THEN <<>>
    ELSE (IF genre_map(Head(ids)) = "" THEN <<>> ELSE <<genre_map(Head(ids))>>) \o genres_named(Tail(ids))

\* overview, imdb_rating, genres and release_year as one result sets them
FieldsOf(result) ==
    [overview |-> result.overview, imdb_rating |-> Some(RatingOf(result.name)),
     genres |-> GenreIdsOf(result.name), release_year |-> Some(result.year)]

\* the four locals before the loops
NoFields(year) == [overview |-> "", imdb_rating |-> None, genres |-> <<>>, release_year |-> year]

\* the first loop over the results: the locals after it
RECURSIVE MetaYearLoop(_, _, _, _)
MetaYearLoop(results, i, year, acc) ==
    IF i > Len(results) THEN acc
    ELSE IF year.some /\ results[i].year = year.v
         THEN IF results[i].overview # ""
              THEN FieldsOf(results[i])
              ELSE MetaYearLoop(results, i + 1, year, FieldsOf(results[i]))
         ELSE MetaYearLoop(results, i + 1, year, acc)

\* the second loop, entered with an empty overview
RECURSIVE MetaAnyLoop(_, _, _)
MetaAnyLoop(results, i, acc) ==
    IF i > Len(results) THEN acc
    ELSE IF results[i].overview # ""
         THEN FieldsOf(results[i])
         ELSE MetaAnyLoop(results, i + 1, FieldsOf(results[i]))

\* the locals after both loops
PickMetadata(results, year) ==
    IF MetaYearLoop(results, 1, year, NoFields(year)).overview # ""
    THEN MetaYearLoop(results, 1, year, NoFields(year))
    ELSE MetaAnyLoop(results, 1, MetaYearLoop(results, 1, year, NoFields(year)))

\* f"{imdb_rating}|{','.join(genres_named)}|{release_year}": the three fields
\* of the line; str(None) is "None"
TextNone == <<"N", "o", "n", "e">>
MetaLine(imdb_rating, genres, release_year) ==
    <<IF imdb_rating.some THEN IntToStr(imdb_rating.v) ELSE TextNone,
      genres,
      IF release_year.some THEN release_year.v ELSE TextNone>>

\* float(meta[0]) raises ValueError
RatingRaises(text) == text # TextNone /\ (text = <<>> \/ \E i \in 1..Len(text) : ~IsDigit(text[i]))

\* the record of one call of load_metadata: the attributes of the item after
\* the call (synopsis, imdb_rating, genres, release_year), and what happened
MetaCall(name, title, year, cached, search, results, picked, write, logged, fields, remoteCalls) ==
    [op |-> "metadata", name |-> name, title |-> title, year |-> year,
     cached |-> cached, search |-> search, results |-> results, picked |-> picked,
     write |-> write, logged |-> logged,
     synopsis |-> fields.overview, imdb_rating |-> fields.imdb_rating,
     genres |-> fields.genres, release_year |-> fields.release_year,
     remoteCalls |-> remoteCalls]

\* the attributes after "self.synopsis = 'Synopsis not available'" of the
\* except clause
AfterExcept(fields) == [fields EXCEPT !.overview = "Synopsis not available"]

\* the branch "if os.path.exists(cache_path)": the attributes after it, and
\* whether the except clause ran
ReadMetadataCache(dir, cache_file, meta_file, year) ==
    LET read == [NoFields(year) EXCEPT !.overview = dir[cache_file]]
    IN IF meta_file \notin FilesOf(dir) \/ Len(dir[meta_file]) # 3
       THEN [fields |-> read, logged |-> FALSE]
       ELSE IF RatingRaises(dir[meta_file][1])
       THEN [fields |-> AfterExcept(read), logged |-> TRUE]
       ELSE [fields |-> [overview |-> dir[cache_file],
                         imdb_rating |-> IF dir[meta_file][1] = TextNone THEN None ELSE Some(ParseInt(dir[meta_file][1])),
                         genres |-> dir[meta_file][2],
                         release_year |-> IF dir[meta_file][3] # <<>> THEN Some(dir[meta_file][3]) ELSE year],
             logged |-> FALSE]

\* the files after the two writes of the branch "if overview": open or write
\* may fail at the first file or at the second, and a failing write of the
\* meta file may leave a truncated line
SynopsisWrites(dir, cache_file, meta_file, fields, write) ==
    IF write = "error" THEN dir
    ELSE IF write = "metaerror" THEN WriteFile(dir, cache_file, fields.overview)
    ELSE IF write = "metapartial"
    THEN WriteFile(WriteFile(dir, cache_file, fields.overview), meta_file, <<TextNone>>)
    ELSE WriteFile(WriteFile(dir, cache_file, fields.overview), meta_file,
                   MetaLine(fields.imdb_rating, fields.genres, fields.release_year))

\* load_metadata of an item whose display name is name
LoadMetadata ==
    /\ clearPc = "idle"
    /\ \E name \in MetaNames :
       \E title \in {extract_movie_title(name)} :
       \E year \in {extract_year(name)} :
       \E cache_file \in {SynopsisFile(title, year)} :
       \E meta_file \in {MetaFile(title, year)} :
          IF cache_file \in FilesOf(synDir)
          THEN \* the synopsis is read from the cache, the rest from the meta file
               \E read \in {ReadMetadataCache(synDir, cache_file, meta_file, year)} :
               /\ lastCall' = MetaCall(name, title, year, TRUE, "none", <<>>, NoFields(year), "none",
                                       read.logged, read.fields, 0)
               /\ UNCHANGED synDir
          ELSE \E search \in {"ok", "error"} :
               IF search = "error"
               THEN \* the request, raise_for_status or json() raises: the except clause
                    /\ lastCall' = MetaCall(name, title, year, FALSE, search, <<>>, NoFields(year), "none",
                                            TRUE, AfterExcept(NoFields(year)), 1)
                    /\ UNCHANGED synDir
               ELSE \E results \in SeqsUpTo(MetaCandidates, MaxResults) :
                    \E picked \in {PickMetadata(results, year)} :
                    \E fields \in {[picked EXCEPT !.genres = genres_named(picked.genres)]} :
                       IF picked.overview = ""
                       THEN /\ lastCall' = MetaCall(name, title, year, FALSE, search, results, picked, "none",
                                                    FALSE, fields, 1)
                            /\ UNCHANGED synDir
                       ELSE \E write \in {"ok", "error", "metaerror", "metapartial"} :
                            /\ lastCall' = MetaCall(name, title, year, FALSE, search, results, picked, write,
                                                    write # "ok",
                                                    IF write = "ok" THEN fields ELSE AfterExcept(fields), 1)
                            /\ synDir' = SynopsisWrites(synDir, cache_file, meta_file, fields, write)
    /\ UNCHANGED <<posterDir, persisted>>
    /\ UNCHANGED clearVars
    /\ UNCHANGED otherThanCaches

MetaNext ==
    \/ LoadMetadata
    \/ RefreshAll
    \/ ListCacheDir
    \/ WorkerTake
    \/ WorkerDelete
    \/ LeaveCacheDir
    \/ EmitFinished
    \/ OnRefreshDone
    \/ RefreshDoneReturn

\* a synopsis cache that holds the entry of ("Up", "2009") with a meta line
\* whose rating is no number
SpoiledSynopsisDir ==
    WriteFile(WriteFile(<<>>, SynopsisFile(T_Up, Some(Y_2009)), "A"),
              MetaFile(T_Up, Some(Y_2009)), <<<<"a", "b", "c">>, <<"Animation">>, Y_2009>>)

\* the synopsis cache is empty at the start, or holds what an earlier session
\* or another program left
InitMeta ==
    /\ OrganizerAtRest
    /\ ClearAtRest
    /\ posterDir = <<>>
    /\ synDir \in {<<>>, SpoiledSynopsisDir}
    /\ lastCall = NoCall
    /\ persisted = {}

SpecMeta == InitMeta /\ [][MetaNext]_vars

\* the candidates of a response whose name is the title / only contains the
\* title, with the requested year and an overview
ExactNamed(call) ==
    {i \in 1..Len(call.results) :
        /\ Lower(call.results[i].name) = Lower(call.title)
        /\ call.year.some /\ call.results[i].year = call.year.v
        /\ call.results[i].overview # ""}
SubstringNamed(call) ==
    {i \in 1..Len(call.results) :
        /\ Lower(call.results[i].name) # Lower(call.title)
        /\ Contains(Lower(call.results[i].name), Lower(call.title))
        /\ call.year.some /\ call.results[i].year = call.year.v
        /\ call.results[i].overview # ""}

\* C3: when the response of the search holds a candidate named as the title
\* and one whose name only contains the title, both of the requested year and
\* both with an overview, the synopsis is the overview of a candidate named as
\* the title, whatever the order of the response.
C3_ExactNameWins ==
    (/\ lastCall.op = "metadata"
     /\ ~lastCall.cached
     /\ lastCall.synopsis # "Synopsis not available"
     /\ ExactNamed(lastCall) # {}
     /\ SubstringNamed(lastCall) # {})
    => lastCall.synopsis \in {lastCall.results[i].overview : i \in ExactNamed(lastCall)}

\* C11: a call of load_metadata whose remote lookup failed altogether (the
\* request failed, the response was empty, or no result had an overview)
\* leaves the item with no rating, no genres, the year of the file name and
\* no synopsis text other than the placeholder.
C11_TotalFailure ==
    (/\ lastCall.op = "metadata"
     /\ ~lastCall.cached
     /\ (lastCall.search = "error" \/ lastCall.picked.overview = ""))
    => /\ lastCall.imdb_rating = None
       /\ lastCall.genres = <<>>
       /\ lastCall.release_year = lastCall.year
       /\ lastCall.synopsis \in {"", "Synopsis not available"}

(***************************************************************************)
(* Failures of the remote requests and of the cache files                  *)
(***************************************************************************)
\* a remote request of the call failed: the search raised, or the image
\* request raised, came back with an error status, or carried no image
RemoteFailed(call) == call.search = "error" \/ call.fetch \in {"error", "status", "junk"}

\* C12: in load_poster every failure of a remote request (a network error,
\* an error status, a payload that is no image) is caught and logged, and
\* the call ends with no poster.
C12_NoRemoteFailurePropagates ==
    (lastCall.op = "poster" /\ RemoteFailed(lastCall))
    => (lastCall.logged /\ lastCall.result = "absent")

\* a remote request of the call was not answered with success
RemoteUnavailable(call) == call.search = "error" \/ call.fetch \in {"error", "status"}

\* C13: a call of load_poster in which the search request or the image
\* request failed with a network error, a timeout or an error status leaves
\* the poster cache and the metadata cache as they were before the call.
C13_UnavailableCachesNothing ==
    [][(lastCall'.op = "poster" /\ RemoteUnavailable(lastCall')) => UNCHANGED <<posterDir, synDir>>]_vars

\* the meta file of the entry cannot be parsed: the number of fields is not
\* three, or the rating is no number
MalformedMeta(dir, meta_file) ==
    /\ meta_file \in FilesOf(dir)
    /\ (Len(dir[meta_file]) # 3 \/ RatingRaises(dir[meta_file][1]))

\* C14: a call of load_metadata that finds the entry of its key with a meta
\* file that cannot be parsed queries the remote catalog and does not fail.
C14_MalformedCacheIsMiss ==
    (/\ lastCall.op = "metadata"
     /\ lastCall.cached
     /\ MalformedMeta(synDir, MetaFile(lastCall.title, lastCall.year)))
    => /\ lastCall.remoteCalls > 0
       /\ ~lastCall.logged
       /\ lastCall.synopsis # "Synopsis not available"

\* C15: a call that obtained its data from the remote catalog and could not
\* write the cache file still delivers the data: load_poster shows the image
\* it fetched, load_metadata keeps the overview it chose as the synopsis; the
\* failure is logged.
C15_UnwritableCacheStillDelivers ==
    /\ (lastCall.op = "poster" /\ lastCall.fetch = "ok" /\ lastCall.write \in {"error", "partial"})
       => (lastCall.logged /\ lastCall.result \in Images)
    /\ (lastCall.op = "metadata" /\ lastCall.write \in {"error", "metaerror", "metapartial"})
       => (lastCall.logged /\ lastCall.synopsis = lastCall.picked.overview)

(***************************************************************************)
(* The names of the items: ImageItem.__init__ and extract_series_info      *)
(***************************************************************************)
\* bound of the model: the parts a name is put together from
MaxTokens == 2

\* the parts of the names
Tok_Show == <<"S", "h", "o", "w">>
Tok_2021 == <<"2", "0", "2", "1">>
Tok_1917 == <<"1", "9", "1", "7">>
Tok_2035 == <<"2", "0", "3", "5">>
Tok_20351 == <<"2", "0", "3", "5", "1">>
Tok_1080p == <<"1", "0", "8", "0", "p">>
Tok_Bracket1999 == <<"[", "1", "9", "9", "9", "]">>
Tok_Paren2005 == <<"(", "2", "0", "0", "5", ")">>
Tok_S01E05 == <<"S", "0", "1", "E", "0", "5">>
Tok_s001e2 == <<"s", "0", "0", "1", "e", "2">>
Tok_S1E1 == <<"S", "1", "E", "1">>
ParseTokens == {Tok_Show, Tok_2021, Tok_1917, Tok_2035, Tok_20351, Tok_1080p, Tok_Bracket1999, Tok_Paren2005, Tok_S01E05, Tok_s001e2, Tok_S1E1}

\* the parts of a name follow each other directly or with a dot between them
Separators == {<<>>, <<".">>}
RECURSIVE JoinedNames(_)
JoinedNames(n) ==
    IF n = 1 THEN ParseTokens
    ELSE {a \o sep \o t : a \in JoinedNames(n - 1), sep \in Separators, t \in ParseTokens}

N_ShowName2021 == <<"S", "h", "o", "w", ".", "N", "a", "m", "e", ".", "2", "0", "2", "1", ".", "1", "0", "8", "0", "p">>
N_NoYearHere == <<"N", "o", "Y", "e", "a", "r", "H", "e", "r", "e">>
N_BreakingBad == <<"B", "r", "e", "a", "k", "i", "n", "g", ".", "B", "a", "d", ".", "S", "0", "1", "E", "0", "5", ".", "1", "0", "8", "0", "p", ".", "m", "k", "v">>
N_RandomMovie == <<"R", "a", "n", "d", "o", "m", " ", "M", "o", "v", "i", "e", ".", "m", "k", "v">>

\* display names of movie files and names of downloaded files
ParseNames == UNION {JoinedNames(n) : n \in 1..MaxTokens} \cup {N_ShowName2021, N_NoYearHere, N_BreakingBad, N_RandomMovie}

\* ImageItem.__init__: search_title and search_year of the display name
NewItem ==
    /\ \E name \in {lastCall.name} :
          lastCall' = [op |-> "item", name |-> name,
                       title |-> extract_movie_title(name), year |-> extract_year(name)]
    /\ UNCHANGED <<persisted, cacheVars, clearVars>>
    /\ UNCHANGED otherThanCaches

\* extract_series_info applied to a name; process_downloads_folder passes it
\* the file name after replace_underscores_and_dots
SeriesInfo ==
    /\ \E name \in {lastCall.name} :
          lastCall' = [op |-> "series", name |-> name, info |-> extract_series_info(name)]
    /\ UNCHANGED <<persisted, cacheVars, clearVars>>
    /\ UNCHANGED otherThanCaches

ParseNext ==
    \/ NewItem
    \/ SeriesInfo

\* a file of some name is there
InitParse ==
    /\ OrganizerAtRest
    /\ ClearAtRest
    /\ posterDir = <<>>
    /\ synDir = <<>>
    /\ lastCall \in {[op |-> "name", name |-> name] : name \in ParseNames}
    /\ persisted = {}

SpecParse == InitParse /\ [][ParseNext]_vars

(***************************************************************************)
(* Properties of the names                                                 *)
(***************************************************************************)
\* a year token at position i: four digits with a value from 1900 to 2029,
\* no digit before and no digit after
IsYearToken(s, i) ==
    /\ i + 3 <= Len(s)
    /\ \A k \in i..(i + 3) : IsDigit(s[k])
    /\ ParseInt(SubSeq(s, i, i + 3)) \in 1900..2029
    /\ (i = 1 \/ ~IsDigit(s[i - 1]))
    /\ (i + 3 = Len(s) \/ ~IsDigit(s[i + 4]))
YearTokens(s) == {i \in 1..Len(s) : IsYearToken(s, i)}

\* C16: the search title of an item with a non-empty display name is not
\* empty; it is the trimmed text before the year token when extract_year
\* finds a year, and the whole name with '.' and '_' replaced by spaces,
\* trimmed, when it finds none.
C16_TitleNeverEmpty ==
    (lastCall.op = "item" /\ lastCall.name # <<>>)
    => /\ lastCall.title # <<>>
       /\ lastCall.year.some =>
             lastCall.title = Strip(Prefix(replace_underscores_and_dots(lastCall.name), SetMin(YearTokens(lastCall.name)) - 1))
       /\ ~lastCall.year.some =>
             lastCall.title = Strip(replace_underscores_and_dots(lastCall.name))

\* C17: extract_year gives the first year token of the text (four digits from
\* 1900 to 2029 with no digit next to them, bare or inside [] or ()), and
\* nothing exactly when the text holds no such token; it gives "2021" for
\* "Show.Name.2021.1080p" and nothing for "NoYearHere".
C17_FirstYearToken ==
    /\ lastCall.op = "item" =>
          lastCall.year = (IF YearTokens(lastCall.name) = {} THEN None
                           ELSE Some(SubSeq(lastCall.name, SetMin(YearTokens(lastCall.name)), SetMin(YearTokens(lastCall.name)) + 3)))
    /\ extract_year(N_ShowName2021) = Some(Tok_2021)
    /\ extract_year(N_NoYearHere) = None

\* a name in which four digits that look like a year but are no token
\* ("2035", or "2035" inside "20351") stand before the year token
C17_Witness ==
    /\ lastCall.op = "item"
    /\ lastCall.year = Some(Tok_2021)
    /\ \E i \in 1..Len(lastCall.name) : LooseYearAt(lastCall.name, i) /\ i < SetMin(YearTokens(lastCall.name))

\* the file name holds S<digits>E<digits>, in either case
HasSeasonEpisodeToken(s) ==
    \E i, j, k \in 1..Len(s) :
        /\ i < j /\ j < k
        /\ s[i] \in {"S", "s"}
        /\ \A d \in (i + 1)..(j - 1) : IsDigit(s[d])
        /\ j > i + 1
        /\ s[j] \in {"E", "e"}
        /\ \A d \in (j + 1)..k : IsDigit(s[d])

\* C18: extract_series_info gives three absent values exactly when the file
\* name holds no S<digits>E<digits>; otherwise the season label is "Season "
\* and the season number without leading zeros; "Breaking.Bad.S01E05.1080p.mkv"
\* gives the series name "Breaking Bad" and "Random Movie.mkv" three absent
\* values.
C18_SeriesInfo ==
    /\ lastCall.op = "series" =>
          /\ (lastCall.info = [series |-> None, season |-> None, year |-> None]) <=> ~HasSeasonEpisodeToken(lastCall.name)
          /\ HasSeasonEpisodeToken(lastCall.name) =>
                /\ lastCall.info.series.some
                /\ lastCall.info.season.some
                /\ StartsWith(lastCall.info.season.v, SeasonWord)
                /\ LET num == Suffix(lastCall.info.season.v, Len(SeasonWord))
                   IN /\ num # <<>>
                      /\ \A d \in 1..Len(num) : IsDigit(num[d])
                      /\ (Len(num) > 1 => num[1] # "0")
                      /\ \E i \in 1..Len(lastCall.name) :
                            /\ lastCall.name[i] \in {"S", "s"}
                            /\ DigitRunEnd(lastCall.name, i + 1) > i
                            /\ ParseInt(SubSeq(lastCall.name, i + 1, DigitRunEnd(lastCall.name, i + 1))) = ParseInt(num)
    /\ extract_series_info(N_BreakingBad).series = Some(<<"B", "r", "e", "a", "k", "i", "n", "g", " ", "B", "a", "d">>)
    /\ extract_series_info(N_BreakingBad).season = Some(SeasonWord \o <<"1">>)
    /\ extract_series_info(Tok_S1E1).season = Some(SeasonWord \o <<"1">>)
    /\ extract_series_info(Tok_s001e2).season = Some(SeasonWord \o <<"1">>)
    /\ extract_series_info(N_RandomMovie) = [series |-> None, season |-> None, year |-> None]

\* a file name with a zero-padded season in lower case after a series name
C18_Witness ==
    /\ lastCall.op = "series"
    /\ lastCall.name = Tok_Show \o <<".">> \o Tok_s001e2
    /\ lastCall.info.series = Some(Tok_Show)
    /\ lastCall.info.season = Some(SeasonWord \o <<"1">>)

(***************************************************************************)
(* The scan of similar cached posters                                      *)
(***************************************************************************)
\* the year stored in the key of a poster file: the file name is the quoted
\* cache name and ".jpg", and the cache name ends with " " and the year
EmbeddedYear(fname) ==
    LET key == Prefix(fname, Len(fname) - 4)
        n == Len(key)
    IN IF /\ n >= 7
          /\ SubSeq(key, n - 6, n - 4) = <<"%", "2", "0">>
          /\ \A i \in (n - 3)..n : IsDigit(key[i])
       THEN Some(SubSeq(key, n - 3, n))
       ELSE None

\* the cached posters whose name begins with the quoted title
TitleEntries(dir, title) == {f \in FilesOf(dir) : StartsWith(Lower(f), Lower(quote(title)))}

YearDistance(fname, year) == Abs(ParseInt(EmbeddedYear(fname).v) - ParseInt(year.v))

\* C19: when load_poster shows a similar cached poster, the file it took
\* begins with the title; with a known year the file holds a year in its
\* key and no other such file holds a year closer to the requested one.
C19_ClosestYear ==
    (lastCall.op = "poster" /\ lastCall.source = "similar")
    => /\ lastCall.path \in TitleEntries(posterDir, lastCall.title)
       /\ lastCall.year.some =>
             /\ EmbeddedYear(lastCall.path).some
             /\ \A f \in TitleEntries(posterDir, lastCall.title) :
                   EmbeddedYear(f).some => YearDistance(lastCall.path, lastCall.year) <= YearDistance(f, lastCall.year)

(***************************************************************************)
(* MediaOrganizerApp.load_series_metadata                                  *)
(***************************************************************************)
\* the names of the series folders
F_Up2009 == <<"U", "p", " ", "2", "0", "0", "9">>
SeriesNames == {T_Up, F_Up2009}

\* a result of /search/tv as load_series_metadata reads it: year is
\* first_air_date[:4], "" when the result has no first_air_date
SeriesCandidates == [name : {T_Up, F_Up2009}, year : {Y_2009, <<>>}]

\* a variant of the score that gives nothing for the year
MatchScore_NoYear(result, series_name, year) ==
    IF Lower(result.name) = Lower(series_name) THEN 100
    ELSE IF Contains(Lower(result.name), Lower(series_name)) THEN 50
    ELSE 0

\* the match score of one result
MatchScore(result, series_name, year) ==
    (IF Lower(result.name) = Lower(series_name) THEN 100
     ELSE IF Contains(Lower(result.name), Lower(series_name)) THEN 50
     ELSE 0)
    + (IF year.some /\ result.year # <<>> /\ year.v = result.year THEN 100 ELSE 0)

\* the loop over the results: the index of best_match, 0 for None
RECURSIVE BestMatchLoop(_, _, _, _, _, _)
BestMatchLoop(results, i, series_name, year, best_score, best_match) ==
    IF i > Len(results) THEN best_match
    ELSE IF MatchScore(results[i], series_name, year) > best_score
         THEN BestMatchLoop(results, i + 1, series_name, year, MatchScore(results[i], series_name, year), i)
         ELSE BestMatchLoop(results, i + 1, series_name, year, best_score, best_match)

BestMatch(results, series_name, year) == BestMatchLoop(results, 1, series_name, year, -1, 0)

\* imdb_rating, genres and release_year after "if best_match:"
SeriesFields(results, best_match, year) ==
    IF best_match = 0
    THEN [imdb_rating |-> None, genres |-> <<>>, release_year |-> year]
    ELSE [imdb_rating |-> Some(RatingOf(results[best_match].name)),
          genres |-> genres_named(GenreIdsOf(results[best_match].name)),
          release_year |-> IF results[best_match].year # <<>> THEN Some(results[best_match].year) ELSE year]

\* the branch "if os.path.exists(meta_path)": the attributes it sets (set is
\* FALSE when it sets none) and whether the except clause ran
ReadSeriesMeta(dir, meta_file, year) ==
    IF Len(dir[meta_file]) # 3
    THEN [set |-> FALSE, logged |-> FALSE, imdb_rating |-> None, genres |-> <<>>, release_year |-> None]
    ELSE IF RatingRaises(dir[meta_file][1])
    THEN [set |-> FALSE, logged |-> TRUE, imdb_rating |-> None, genres |-> <<>>, release_year |-> None]
    ELSE [set |-> TRUE, logged |-> FALSE,
          imdb_rating |-> IF dir[meta_file][1] = TextNone THEN None ELSE Some(ParseInt(dir[meta_file][1])),
          genres |-> dir[meta_file][2],
          release_year |-> IF dir[meta_file][3] # <<>> THEN Some(dir[meta_file][3]) ELSE year]

\* the record of one call of load_series_metadata: best_match is the index of
\* the chosen result (0: none), set tells whether the attributes were set
SeriesCall(name, year, cached, search, results, best_match, write, logged, set, fields) ==
    [op |-> "series_metadata", name |-> name, title |-> name, year |-> year,
     cached |-> cached, search |-> search, results |-> results, best_match |-> best_match,
     write |-> write, logged |-> logged, set |-> set,
     imdb_rating |-> fields.imdb_rating, genres |-> fields.genres, release_year |-> fields.release_year]

\* the body of load_series_metadata for the series folder series_name
SeriesLookup(series_name) ==
    \E year \in {extract_year(series_name)} :
    \E meta_file \in {MetaFile(series_name, year)} :
       IF meta_file \in FilesOf(synDir)
       THEN \E read \in {ReadSeriesMeta(synDir, meta_file, year)} :
            /\ lastCall' = SeriesCall(series_name, year, TRUE, "none", <<>>, 0, "none", read.logged, read.set, read)
            /\ UNCHANGED synDir
       ELSE \E search \in {"ok", "error"} :
            IF search = "error"
            THEN \* the request, raise_for_status or json() raises
                 /\ lastCall' = SeriesCall(series_name, year, FALSE, search, <<>>, 0, "none", TRUE, FALSE,
                                           SeriesFields(<<>>, 0, None))
                 /\ UNCHANGED synDir
            ELSE \E results \in SeqsUpTo(SeriesCandidates, MaxResults) :
                 \E best_match \in {BestMatch(results, series_name, year)} :
                 \E fields \in {SeriesFields(results, best_match, year)} :
                 \E write \in {"ok", "error"} :
                    /\ lastCall' = SeriesCall(series_name, year, FALSE, search, results, best_match, write,
                                              write # "ok", TRUE, fields)
                    /\ synDir' = IF write = "ok"
                                 THEN WriteFile(synDir, meta_file, MetaLine(fields.imdb_rating, fields.genres, fields.release_year))
                                 ELSE synDir

\* load_series_metadata of the series folder series_name
LoadSeriesMetadata ==
    /\ clearPc = "idle"
    /\ \E series_name \in SeriesNames : SeriesLookup(series_name)
    /\ UNCHANGED <<posterDir, persisted>>
    /\ UNCHANGED clearVars
    /\ UNCHANGED otherThanCaches

SeriesNext ==
    \/ LoadSeriesMetadata
    \/ RefreshAll
    \/ ListCacheDir
    \/ WorkerTake
    \/ WorkerDelete
    \/ LeaveCacheDir
    \/ EmitFinished
    \/ OnRefreshDone
    \/ RefreshDoneReturn

InitSeries ==
    /\ OrganizerAtRest
    /\ ClearAtRest
    /\ posterDir = <<>>
    /\ synDir = <<>>
    /\ lastCall = NoCall
    /\ persisted = {}

SpecSeries == InitSeries /\ [][SeriesNext]_vars

\* C20: a call of load_series_metadata that made the remote search writes
\* the meta file of its key when it chose a candidate, and writes nothing
\* when the search gave no candidate to choose; a call of load_poster that
\* chose a poster and got its bytes leaves the poster file of its key, and a
\* call that chose none writes nothing.
C20_PersistOnSuccessOnly ==
    [][/\ (lastCall'.op = "series_metadata" /\ ~lastCall'.cached /\ lastCall'.search = "ok") =>
            IF lastCall'.best_match = 0
            THEN UNCHANGED <<posterDir, synDir>>
            ELSE lastCall'.write = "ok" => MetaFile(lastCall'.title, lastCall'.year) \in FilesOf(synDir')
       /\ (lastCall'.op = "poster" /\ lastCall'.search = "ok") =>
            IF lastCall'.fetch = "none"
            THEN UNCHANGED <<posterDir, synDir>>
            ELSE lastCall'.write = "ok" => PosterFile(lastCall'.title, lastCall'.year) \in FilesOf(posterDir')]_vars

(***************************************************************************)
(* Properties of the choice among the results of /search/tv               *)
(***************************************************************************)
\* the score of the i-th result of a call, as the specification words it
NameScore(call, i) ==
    IF Lower(call.results[i].name) = Lower(call.title) THEN 100
    ELSE IF \E k \in 1..Len(call.results[i].name) : \E j \in (k - 1)..Len(call.results[i].name) :
               Lower(SubSeq(call.results[i].name, k, j)) = Lower(call.title)
    THEN 50
    ELSE 0
YearScore(call, i) == IF call.year.some /\ Some(call.results[i].year) = call.year THEN 100 ELSE 0
CandidateScore(call, i) == NameScore(call, i) + YearScore(call, i)

\* C21: load_series_metadata chooses the result with the highest score (100
\* for a name equal to the series name, else 50 for a name that contains it,
\* else 0, plus 100 for the known year), the earliest of those with that
\* score; rating, genres and year are those of the chosen result.
C21_HighestScoreFirstWins ==
    (lastCall.op = "series_metadata" /\ ~lastCall.cached /\ lastCall.search = "ok")
    => /\ lastCall.best_match \in 0..Len(lastCall.results)
       /\ (lastCall.best_match = 0) <=> (lastCall.results = <<>>)
       /\ lastCall.best_match # 0 =>
             /\ \A i \in 1..Len(lastCall.results) :
                   CandidateScore(lastCall, i) <= CandidateScore(lastCall, lastCall.best_match)
             /\ \A i \in 1..(lastCall.best_match - 1) :
                   CandidateScore(lastCall, i) < CandidateScore(lastCall, lastCall.best_match)
             /\ lastCall.imdb_rating = Some(RatingOf(lastCall.results[lastCall.best_match].name))

\* the second result is chosen: its name only equals the series name and it
\* has the known year (200), the first one has neither (0)
C21_Witness ==
    /\ lastCall.op = "series_metadata"
    /\ Len(lastCall.results) = 2
    /\ lastCall.best_match = 2
    /\ CandidateScore(lastCall, 1) = 0
    /\ CandidateScore(lastCall, 2) = 200

(***************************************************************************)
(* MediaOrganizerApp.get_series_synopsis (return_meta=True)                *)
(***************************************************************************)
\* a result of /search/tv as get_series_synopsis reads it
SynopsisCandidates ==
    {[name |-> T_Up, year |-> Y_2009, overview |-> "A"],
     [name |-> T_Up, year |-> <<>>, overview |-> "A"],
     [name |-> T_Up, year |-> <<>>, overview |-> ""],
     [name |-> F_Up2009, year |-> Y_2009, overview |-> "B"]}

\* overview, imdb_rating, genres_named and result_year after "if best_match:"
SynopsisFields(results, best_match, year) ==
    IF best_match = 0
    THEN [overview |-> "", imdb_rating |-> None, genres |-> <<>>, release_year |-> year]
    ELSE [overview |-> results[best_match].overview,
          imdb_rating |-> Some(RatingOf(results[best_match].name)),
          genres |-> genres_named(GenreIdsOf(results[best_match].name)),
          release_year |-> IF results[best_match].year # <<>> THEN Some(results[best_match].year) ELSE year]

\* "return None, None, [], None" after the except clause
SynopsisFailed == [overview |-> None, imdb_rating |-> None, genres |-> <<>>, release_year |-> None]

\* the four values returned
SynopsisReturned(fields) == [fields EXCEPT !.overview = Some(fields.overview)]

\* the branch "if os.path.exists(cache_path)": the values returned and
\* whether the except clause ran
ReadSynopsisCache(dir, cache_file, meta_file, year) ==
    IF meta_file \notin FilesOf(dir) \/ Len(dir[meta_file]) # 3
    THEN [logged |-> FALSE,
          values |-> [overview |-> Some(dir[cache_file]), imdb_rating |-> None, genres |-> <<>>, release_year |-> year]]
    ELSE IF RatingRaises(dir[meta_file][1])
    THEN [logged |-> TRUE, values |-> SynopsisFailed]
    ELSE [logged |-> FALSE,
          values |-> [overview |-> Some(dir[cache_file]),
                      imdb_rating |-> IF dir[meta_file][1] = TextNone THEN None ELSE Some(ParseInt(dir[meta_file][1])),
                      genres |-> dir[meta_file][2],
                      release_year |-> IF dir[meta_file][3] # <<>> THEN Some(dir[meta_file][3]) ELSE year]]

\* the record of one call of get_series_synopsis: best_match is the index of
\* the chosen result (0: none); overview, imdb_rating, genres and result_year
\* are the values returned
SynopsisCall(name, year, cached, search, results, best_match, write, logged, values) ==
    [op |-> "series_synopsis", name |-> name, title |-> name, year |-> year,
     cached |-> cached, search |-> search, results |-> results, best_match |-> best_match,
     write |-> write, logged |-> logged,
     overview |-> values.overview, imdb_rating |-> values.imdb_rating,
     genres |-> values.genres, result_year |-> values.release_year]

\* what a call has written to the meta file of a key
StoredMeta(meta_file, fields) ==
    [file |-> meta_file, imdb_rating |-> fields.imdb_rating, genres |-> fields.genres, release_year |-> fields.release_year]

\* get_series_synopsis(series_path, return_meta=True) for the series folder
\* series_name; persisted keeps what the calls wrote to the meta files
GetSeriesSynopsis ==
    /\ clearPc = "idle"
    /\ \E series_name \in SeriesNames :
       \E year \in {extract_year(series_name)} :
       \E cache_file \in {SynopsisFile(series_name, year)} :
       \E meta_file \in {MetaFile(series_name, year)} :
          IF cache_file \in FilesOf(synDir)
          THEN \E read \in {ReadSynopsisCache(synDir, cache_file, meta_file, year)} :
               /\ lastCall' = SynopsisCall(series_name, year, TRUE, "none", <<>>, 0, "none", read.logged, read.values)
               /\ UNCHANGED <<synDir, persisted>>
          ELSE \E search \in {"ok", "error"} :
               IF search = "error"
               THEN \* the request, raise_for_status or json() raises
                    /\ lastCall' = SynopsisCall(series_name, year, FALSE, search, <<>>, 0, "none", TRUE, SynopsisFailed)
                    /\ UNCHANGED <<synDir, persisted>>
               ELSE \E results \in SeqsUpTo(SynopsisCandidates, MaxResults) :
                    \E best_match \in {BestMatch(results, series_name, year)} :
                    \E fields \in {SynopsisFields(results, best_match, year)} :
                       IF fields.overview = ""
                       THEN /\ lastCall' = SynopsisCall(series_name, year, FALSE, search, results, best_match, "none",
                                                        FALSE, SynopsisReturned(fields))
                            /\ UNCHANGED <<synDir, persisted>>
                       ELSE \E write \in {"ok", "error", "metaerror", "metapartial"} :
                            /\ lastCall' = SynopsisCall(series_name, year, FALSE, search, results, best_match, write,
                                                        write # "ok",
                                                        IF write = "ok" THEN SynopsisReturned(fields) ELSE SynopsisFailed)
                            /\ synDir' = SynopsisWrites(synDir, cache_file, meta_file, fields, write)
                            /\ persisted' = IF write = "ok" THEN persisted \cup {StoredMeta(meta_file, fields)} ELSE persisted
    /\ UNCHANGED posterDir
    /\ UNCHANGED clearVars
    /\ UNCHANGED otherThanCaches

SynopsisNext ==
    \/ GetSeriesSynopsis
    \/ RefreshAll
    \/ ListCacheDir
    \/ WorkerTake
    \/ WorkerDelete
    \/ LeaveCacheDir
    \/ EmitFinished
    \/ OnRefreshDone
    \/ RefreshDoneReturn

InitSynopsis ==
    /\ OrganizerAtRest
    /\ ClearAtRest
    /\ posterDir = <<>>
    /\ synDir = <<>>
    /\ lastCall = NoCall
    /\ persisted = {}

SpecSynopsis == InitSynopsis /\ [][SynopsisNext]_vars

\* the results of a call that have an overview
WithOverview(call) == {i \in 1..Len(call.results) : call.results[i].overview # ""}

\* C22: when the result that get_series_synopsis chose has no overview and
\* another result of the response has one, the synopsis returned is the
\* overview of the first result that has one.
C22_FieldFallback ==
    (/\ lastCall.op = "series_synopsis"
     /\ ~lastCall.cached
     /\ lastCall.search = "ok"
     /\ lastCall.best_match # 0
     /\ lastCall.best_match \notin WithOverview(lastCall)
     /\ WithOverview(lastCall) # {})
    => lastCall.overview = Some(lastCall.results[SetMin(WithOverview(lastCall))].overview)

\* C26: a call of get_series_synopsis that reads the meta file an earlier
\* call wrote for the same key returns the rating, the genre names and the
\* year that the earlier call wrote, an absent rating and an absent year
\* included.
C26_MetaRoundTrip ==
    (lastCall.op = "series_synopsis" /\ lastCall.cached)
    => \A stored \in persisted :
          stored.file = MetaFile(lastCall.title, lastCall.year)
          => /\ lastCall.imdb_rating = stored.imdb_rating
             /\ lastCall.genres = stored.genres
             /\ lastCall.result_year = stored.release_year

(***************************************************************************)
(* Further properties of the file organizer                                *)
(***************************************************************************)
\* the name holds a season/episode token and nothing is left of the series name
EmptySeriesName(file_name) ==
    /\ HasSeasonEpisodeToken(file_name)
    /\ extract_series_info(replace_underscores_and_dots(file_name)).series = Some(<<>>)
\* the source files of that kind
EmptySeriesSources == {e \in InitialEntries : InDownloads(e) /\ EmptySeriesName(e.name)}

InDestination(e) == e.kind = "file" /\ e.dir.root \in {movies_folder.root, series_folder.root}

\* C27: no step of the organizer removes, renames or overwrites a file of a
\* destination directory, and after every step no file is at more than one
\* destination path.
C27_Conserves ==
    [][/\ \A e \in fs : InDestination(e) => e \in fs'
       /\ \A a, b \in fs' : (a.dir = b.dir /\ a.name = b.name) => a = b
       /\ \A a, b \in fs' : (a.id = b.id /\ InDestination(a) /\ InDestination(b)) => a = b]_vars

(***************************************************************************)
(* The life of a poster cache entry                                        *)
(***************************************************************************)
\* the cache files of the poster directory that a step changes or removes
ChangedPosters == {f \in FilesOf(posterDir) : ContentAt(posterDir', f) # posterDir[f]}
\* the step is one of the clearing thread and removes the file
RemovedByClearing(f) == f \notin FilesOf(posterDir') /\ clearPc # "idle"

\* C25 as stated: an existing poster entry changes only by being deleted by
\* the clearing of the cache; no call of load_poster rewrites or removes it.
C25_ReadOnlyAsStated ==
    [][\A f \in ChangedPosters : RemovedByClearing(f)]_vars

\* C25: an existing poster entry whose bytes are a readable image changes only
\* by being deleted by the clearing of the cache; an entry whose bytes are not
\* a readable image changes in that way, or by a call of load_poster for its
\* key that went to the remote stage and wrote the file anew.
C25_ReadOnly ==
    [][\A f \in ChangedPosters :
          \/ RemovedByClearing(f)
          \/ /\ posterDir[f] \notin Images
             /\ lastCall'.op = "poster"
             /\ lastCall'.stages = <<"exact", "similar", "remote">>
             /\ lastCall'.wrote # "none"
             /\ f = PosterFile(lastCall'.title, lastCall'.year)]_vars

\* a call went to the remote stage and wrote its file beside a readable entry
\* of another key, which an earlier call had left
C25_Witness ==
    /\ lastCall.op = "poster"
    /\ lastCall.wrote \in Images
    /\ \E f \in FilesOf(posterDir) :
          /\ f # PosterFile(lastCall.title, lastCall.year)
          /\ posterDir[f] \in Images

\* C28: the poster a call of load_poster shows from the cache is the entry of
\* a key of the searched title: the cache file of (title, year) for the
\* searched year, for another year, or for no year; never the entry of a
\* different title.
C28_SameTitleOnly ==
    (lastCall.op = "poster" /\ lastCall.source \in {"exact", "similar"}) =>
        \E y \in SearchYears :
            \E f \in {PosterFile(lastCall.title, y)} :
                /\ lastCall.source = "similar" => lastCall.path = f
                /\ lastCall.source = "exact" => f = PosterFile(lastCall.title, lastCall.year)

(***************************************************************************)
(* The deferred lookups of populate_series_list and the clearing thread    *)
(***************************************************************************)
\* show_series_window: populate_series_list builds the list of series and
\* queues one load_series_metadata per series folder; the posters it looks
\* for lie in the series folders, not in the caches
ShowSeriesWindow ==
    /\ guiEnabled
    /\ clearPc = "idle"
    /\ timers' = TimersAfterPopulate
    /\ UNCHANGED <<clearVars, cacheVars, lookupVars, current_season>>
    /\ UNCHANGED organizerVars

\* the event loop of the GUI thread runs a pending callback: the lambda calls
\* load_series_metadata.  The clearing thread is another thread, so the
\* callback runs at any position of CacheClearThread.run; it does not run
\* while the GUI thread is inside _on_refresh_done
DeferredLookup ==
    /\ clearPc # "reload"
    /\ \E series_name \in timers :
          /\ timers' = timers \ {series_name}
          /\ SeriesLookup(series_name)
    /\ UNCHANGED <<posterDir, persisted, current_season>>
    /\ UNCHANGED clearVars
    /\ UNCHANGED organizerVars

DeferredNext ==
    \/ ShowSeriesWindow
    \/ DeferredLookup
    \/ RefreshAll
    \/ ListCacheDir
    \/ WorkerTake
    \/ WorkerDelete
    \/ LeaveCacheDir
    \/ EmitFinished
    \/ OnRefreshDone
    \/ RefreshDoneReturn

\* the series folder holds one folder per series name; the caches are empty
InitDeferred ==
    /\ fs = {}
    /\ dirs = {Dir(series_folder.root, <<series_name>>) : series_name \in SeriesNames}
    /\ srcExists = [d \in 1..2 |-> TRUE]
    /\ sortPc = "idle"
    /\ folderIdx = 1
    /\ listing = {}
    /\ cur = NoMove
    /\ moveLog = <<>>
    /\ listed = {}
    /\ processed = {}
    /\ failures = 0
    /\ ClearAtRest
    /\ posterDir = <<>>
    /\ synDir = <<>>
    /\ lastCall = NoCall
    /\ persisted = {}

SpecDeferred == InitDeferred /\ [][DeferredNext]_vars

\* C29: in the step in which the clearing thread emits finished, the cache
\* directories hold no file other than those whose deletion failed.
C29_EmptyAtSignal ==
    [][(clearPc # "emitted" /\ clearPc' = "emitted") => AllCacheFiles' \subseteq errLog']_vars

(***************************************************************************)
(* The episodes view: show_series_episodes and show_season_episodes        *)
(***************************************************************************)
L_Season1 == <<"S", "e", "a", "s", "o", "n", " ", "1">>
L_Season2 == <<"S", "e", "a", "s", "o", "n", " ", "2">>
N_UpS01E01 == <<"U", "p", ".", "S", "0", "1", "E", "0", "1", ".", "m", "k", "v">>
N_UpS01E02 == <<"U", "p", ".", "S", "0", "1", "E", "0", "2", ".", "m", "k", "v">>
N_UpS02E01 == <<"U", "p", ".", "S", "0", "2", "E", "0", "1", ".", "m", "k", "v">>
T_Show == <<"S", "h", "o", "w">>

\* what may lie below the series folder at the start
EpisodeEntries ==
    {Entry(SeriesSeasonDir(T_Up, L_Season1), N_UpS01E01, "file", 41),
     Entry(SeriesSeasonDir(T_Up, L_Season1), N_UpS01E02, "file", 42),
     Entry(SeriesSeasonDir(T_Up, L_Season2), N_UpS02E01, "file", 43),
     Entry(SeriesSeasonDir(T_Show, L_Season2), N_ShowS02E03, "file", 44),
     Entry(Dir(series_folder.root, <<T_Show>>), N_movie, "file", 45),
     Entry(Dir(series_folder.root, <<T_Show>>), N_notes, "file", 46)}

\* the loop over os.walk(series_path): a directory whose base name is not
\* current_season is skipped when current_season is set, and the media files
\* of the other directories are listed
EpisodesListed(series_name, season) ==
    {e \in fs :
        /\ e.kind = "file"
        /\ e.dir.root = series_folder.root
        /\ Len(e.dir.sub) > 0
        /\ e.dir.sub[1] = series_name
        /\ ~(season.some /\ season.v # <<>> /\ e.dir.sub[Len(e.dir.sub)] # season.v)
        /\ IsMedia(e.name)}

\* get_seasons_list: the directories of series_path whose name starts with "season"
get_seasons_list(series_name) ==
    {d.sub[2] : d \in {x \in dirs : /\ x.root = series_folder.root
                                     /\ Len(x.sub) = 2
                                     /\ x.sub[1] = series_name
                                     /\ StartsWith(Lower(x.sub[2]), <<"s", "e", "a", "s", "o", "n">>)}}

\* the record of one call of show_series_episodes: via tells whether it came
\* from a click in the series list or from a season button
EpisodesCall(series_name, via, season, shown) ==
    [op |-> "episodes", series |-> series_name, via |-> via, season |-> season, shown |-> shown]

\* show_series_episodes, the slot of series_list.itemClicked.  The poster and
\* the synopsis of the banner and the items of the episodes are the lookups
\* of the other specifications; the caches are left as they are here
ShowSeriesEpisodes ==
    /\ guiEnabled
    /\ \E series_name \in SeriesFolders :
          lastCall' = EpisodesCall(series_name, "list", current_season,
                                   EpisodesListed(series_name, current_season))
    /\ UNCHANGED <<current_season, persisted, timers>>
    /\ UNCHANGED <<clearVars, cacheVars>>
    /\ UNCHANGED organizerVars

\* show_season_episodes, the slot of a season button of the episodes view
\* that show_series_episodes built last
ShowSeasonEpisodes ==
    /\ guiEnabled
    /\ lastCall.op = "episodes"
    /\ \E season \in get_seasons_list(lastCall.series) :
          /\ current_season' = Some(season)
          /\ lastCall' = EpisodesCall(lastCall.series, "season", Some(season),
                                      EpisodesListed(lastCall.series, Some(season)))
    /\ UNCHANGED <<persisted, timers>>
    /\ UNCHANGED <<clearVars, cacheVars>>
    /\ UNCHANGED organizerVars

EpisodesNext ==
    \/ ShowSeriesEpisodes
    \/ ShowSeasonEpisodes

\* some episodes lie below the series folder; nothing was selected yet
InitEpisodes ==
    /\ fs \in SUBSET EpisodeEntries
    /\ dirs = {e.dir : e \in fs} \cup {Dir(series_folder.root, <<e.dir.sub[1]>>) : e \in fs}
    /\ srcExists = [d \in 1..2 |-> TRUE]
    /\ sortPc = "idle"
    /\ folderIdx = 1
    /\ listing = {}
    /\ cur = NoMove
    /\ moveLog = <<>>
    /\ listed = {}
    /\ processed = {}
    /\ failures = 0
    /\ ClearAtRest
    /\ posterDir = <<>>
    /\ synDir = <<>>
    /\ lastCall = NoCall
    /\ persisted = {}

SpecEpisodes == InitEpisodes /\ [][EpisodesNext]_vars

\* every media file below the folder of the series
AllEpisodes(series_name) ==
    {e \in fs : /\ e.kind = "file"
                /\ e.dir.root = series_folder.root
                /\ Len(e.dir.sub) > 0
                /\ e.dir.sub[1] = series_name
                /\ HasMediaExtension(e.name)}

\* C30: a click on a series of the series list shows every media file below
\* the folder of that series, whatever was selected before; a click on a
\* season button of the series being shown shows the episodes of that season.
C30_OpenShowsAll ==
    lastCall.op = "episodes" =>
        /\ lastCall.via = "list" => lastCall.shown = AllEpisodes(lastCall.series)
        /\ lastCall.via = "season"
              => lastCall.shown = {e \in AllEpisodes(lastCall.series) : e.dir.sub[Len(e.dir.sub)] = lastCall.season.v}

====
